---- MODULE Spec2Model ----
(***************************************************************************)
(* Model of swf-fastmon-agent: the ingestion pipeline that scans DAQ       *)
(* directories, registers STF files (deduplicated by file_url), associates *)
(* them with a Run, derives TF subsamples and notifies clients.            *)
(*                                                                         *)
(* The repository holds two revisions of the registration code:            *)
(*   "orm"  -- agents/fastmon_utils.py, agents/main.py: Django ORM calls    *)
(*   "rest" -- fastmon_utils.py, main.py: REST calls through                *)
(*             agent.call_monitor_api                                      *)
(* Both are modelled; an agent instance runs one of them.  main.py calls   *)
(* the registration function as record_stf_file and the sampler as         *)
(* sample_files; the definitions present in fastmon_utils.py are           *)
(* record_file and select_files, which are what is modelled here.          *)
(***************************************************************************)
EXTENDS Integers, Sequences, FiniteSets, TLC

\* ------------------------------------------------------------------ bounds
\* record_file calls one instance makes under Spec
MaxCalls == 2
\* environment events (API/database faults, files vanishing) in one behaviour
MaxEnvEvents == 1

\* ------------------------------------------------------- program constants
DefaultRunNumber == 1

\* --------------------------------------------------------------- universes
Instances == {"a1", "a2"}
Kinds == {"orm", "rest"}

\* File names are sequences of characters, as extract_run_number reads them.
Name1 == <<"r", "u", "n", "_", "2", ".", "s", "t", "f">>
Name2 == <<"R", "2", ".", "s", "t", "f">>
Names == {Name1, Name2}
\* Absolute paths: directory separator followed by the file name.
Paths == {<<"/">> \o n : n \in Names}
NoPath == <<>>
None == [nil |-> TRUE]

\* ------------------------------------------------------------ text helpers
SetMin(S) == CHOOSE x \in S : \A y \in S : x <= y
SetMax(S) == CHOOSE x \in S : \A y \in S : x >= y

Digits == {"0", "1", "2", "3", "4", "5", "6", "7", "8", "9"}
IsDigit(c) == c \in Digits
DigitVal(c) ==
  CASE c = "0" -> 0 [] c = "1" -> 1 [] c = "2" -> 2 [] c = "3" -> 3
    [] c = "4" -> 4 [] c = "5" -> 5 [] c = "6" -> 6 [] c = "7" -> 7
    [] c = "8" -> 8 [] c = "9" -> 9

\* re.IGNORECASE on the letters the patterns use
Lower(c) ==
  CASE c = "R" -> "r" [] c = "U" -> "u" [] c = "N" -> "n" [] OTHER -> c

\* Path.name: the component after the last separator
LastSlash(p) ==
  LET S == {i \in 1..Len(p) : p[i] = "/"} IN IF S = {} THEN 0 ELSE SetMax(S)
PathName(p) == SubSeq(p, LastSlash(p) + 1, Len(p))

\* int(match.group(1)) for the digit run s[from..to]
RECURSIVE DigitsToInt(_, _, _)
DigitsToInt(s, from, to) ==
  IF to < from THEN 0
  ELSE 10 * DigitsToInt(s, from, to - 1) + DigitVal(s[to])

\* the literal prefix `lit` followed by at least one digit, at position i
PatternAt(s, i, lit) ==
  /\ i + Len(lit) <= Len(s)
  /\ \A k \in 1..Len(lit) : Lower(s[i + k - 1]) = lit[k]
  /\ IsDigit(s[i + Len(lit)])

\* end of the greedy (\d+) group that starts at position j
DigitRunEnd(s, j) ==
  SetMax({e \in j..Len(s) : \A k \in j..e : IsDigit(s[k])})

\* re.search(lit + r"(\d+)", s, re.IGNORECASE): <<n>> for the leftmost
\* match's group, <<>> for no match
ReSearch(s, lit) ==
  LET pos == {i \in 1..Len(s) : PatternAt(s, i, lit)} IN
  IF pos = {} THEN <<>>
  ELSE LET j == SetMin(pos) + Len(lit) IN
       <<DigitsToInt(s, j, DigitRunEnd(s, j))>>

RunPatterns == << <<"r", "u", "n", "_">>, <<"r", "u", "n">>, <<"r">> >>

\* the pattern whose match starts first in the name wins, whatever its rank
extract_run_number_LeftmostWins(file_path, default_run_number) ==
  LET filename == PathName(file_path)
      hits == {k \in 1..Len(RunPatterns) : ReSearch(filename, RunPatterns[k]) # <<>>}
      start(k) == SetMin({i \in 1..Len(filename) : PatternAt(filename, i, RunPatterns[k])})
  IN IF hits = {} THEN default_run_number
     ELSE ReSearch(filename,
                   RunPatterns[CHOOSE k \in hits : \A h \in hits : start(k) <= start(h)])[1]

extract_run_number(file_path, default_run_number) ==
  LET filename == PathName(file_path)
      hits == {k \in 1..Len(RunPatterns) : ReSearch(filename, RunPatterns[k]) # <<>>}
  IN IF hits = {} THEN default_run_number
     ELSE ReSearch(filename, RunPatterns[SetMin(hits)])[1]

\* str.rstrip('/')
RECURSIVE RStripSlash(_)
RStripSlash(s) ==
  IF s # <<>> /\ s[Len(s)] = "/" THEN RStripSlash(SubSeq(s, 1, Len(s) - 1))
  ELSE s

\* the orm revision drops one trailing slash only
DropOneSlash(s) ==
  IF s # <<>> /\ s[Len(s)] = "/" THEN SubSeq(s, 1, Len(s) - 1) ELSE s

\* paths of the model are absolute already: resolve() leaves them as they are
construct_file_url(kind, file_path, base_url) ==
  IF kind = "rest" THEN RStripSlash(base_url) \o <<"/">> \o file_path
  ELSE DropOneSlash(base_url) \o file_path

\* ------------------------------------------------------------ configuration
BaseUrl == <<"f", "i", "l", "e", ":", "/", "/">>

\* the configuration each revision's main() builds
Config(kind) ==
  [ base_url |-> BaseUrl,
    default_run_number |-> DefaultRunNumber,
    calculate_checksum |-> (kind = "rest") ]


\* rows inserted as already processed
FileStatusRegistered_Processed(k) == IF k = "rest" THEN "PROCESSED" ELSE "processed"

\* status literals of the two revisions' FileStatus
FileStatusRegistered(k) == IF k = "rest" THEN "REGISTERED" ELSE "registered"

\* st_size of every file the DAQ writes in the model
StSize == 1000

VARIABLES
  \* ---- the catalog (database behind the ORM / behind the monitor's REST API)
  runs,            \* rows of table runs
  stf_files,       \* rows of table stf_files
  fastmon_files,   \* rows created through /fastmon-files/ (TF files)
  dispatches,      \* rows of table message_queue_dispatches
  publishes,       \* publish attempts at the monitor's /messages/ endpoint
  \* ---- environment
  disk,            \* [Paths -> [present, size]]
  envEvents,       \* faults and file-system events so far
  \* ---- one agent instance each
  kind,            \* which revision the instance runs
  pc,              \* control point
  rf,              \* record_file's locals
  res,             \* how the current / last record_file call went
  calls,           \* record_file calls started
  runRet,          \* the Runs get_or_create_run returned, in call order
  completed,       \* urls whose registration completed (recorded or found)
  \* ---- the scan cycle of FastMonitorAgent (instance "a1" under SpecCycle)
  cy,              \* locals of _emulate_stf_registration_and_sampling
  cycles,          \* cycles started by start_continuous_monitoring
  has_filename,    \* whether the monitor's STF rows carry a 'filename' key
  selection_percent, \* config['selection_fraction'], in percent
  \* ---- the periodic loop (start_continuous_monitoring / start)
  running,         \* self.running of each agent
  interrupted,     \* a KeyboardInterrupt was delivered
  stop_called,     \* stop() was called on the FileMonitorAgent
  client,          \* the FastMonitoringClient: position, running flag, connection
  \* ---- a client of DatabaseManager
  db,              \* the call in progress and its session
  dbCalls,         \* DatabaseManager calls started
  \* ---- one call of a function of fastmon_utils, or one construction
  config,          \* the configuration dictionary passed in
  args,            \* the other arguments of the call
  result,          \* what the call returned or raised
  \* ---- inbound messages (FastMonitorAgent.on_message, the client's listener)
  TfMetadata,      \* rows of the client's table tf_metadata
  client_runs,     \* rows of the client's table runs
  handled          \* the frames on_message has returned from, in order

storeVars == <<runs, stf_files, fastmon_files, dispatches, publishes>>
envVars == <<disk, envEvents>>
agentVars == <<kind, pc, rf, res, calls, runRet, completed>>
cycleVars == <<cy, cycles, has_filename, selection_percent>>
dbVars == <<db, dbCalls>>
loopVars == <<running, interrupted, stop_called>>
fnVars == <<config, args, result>>
msgVars == <<TfMetadata, client_runs, handled, client>>
vars == <<storeVars, envVars, agentVars, cycleVars, dbVars, loopVars, fnVars, msgVars>>

\* ------------------------------------------------------------- the catalog
\* Run.objects.filter(run_number=n) / GET /runs/?run_number=n
RunsByNumber(rs, n) == {r \in rs : r.run_number = n}

\* run_number = models.IntegerField(unique=True)
RunNumberTaken(rs, n) == \E r \in rs : r.run_number = n

\* run_id = models.AutoField(primary_key=True); rows are never deleted
NewRun(rs, n, conditions) ==
  [run_id |-> Cardinality(rs) + 1, run_number |-> n, run_conditions |-> conditions]

\* StfFile.objects.filter(file_url=url) / GET /stf-files/?file_url=url
StfFilesByUrl(fs, url) == {f \in fs : f.file_url = url}

\* file_url = models.URLField(max_length=1024, unique=True)
FileUrlTaken(fs, url) == \E f \in fs : f.file_url = url

\* mutant: the filter on file_url is dropped from the existence test
StfFileExists_NoFilter(fs, url) == fs # {}

\* orm revision: StfFile.objects.filter(file_url=file_url).exists()
StfFileExists(fs, url) == \E f \in fs : f.file_url = url

\* mutant: the query loses its file_url parameter and lists every STF file
ExistingFiles_NoFilter(fs, url) == fs

\* rest revision: existing_files['results'] of GET /stf-files/?file_url=...
ExistingFiles(fs, url) == {f \in fs : f.file_url = url}

\* record_file's "already recorded" test
FileAlreadyRecorded(k, fs, url) ==
  IF k = "rest" THEN ExistingFiles(fs, url) # {} ELSE StfFileExists(fs, url)

\* mutant: update_or_create instead of get_or_create: the defaults overwrite
\* the stored row
RunsAfterGet_Update(rs, r) ==
  (rs \ {r}) \cup {[r EXCEPT !.run_conditions = "auto_created"]}

\* a lookup that writes the time of the lookup into the row it found
RunsAfterGet_Touch(rs, r) ==
  (rs \ {r}) \cup {[r EXCEPT !.run_conditions = "looked_up"]}

\* get_or_create / "found existing run": the stored row is returned as it is,
\* the defaults apply to a created row only
RunsAfterGet(rs, r) == rs

\* a row that is inserted with the run of the first Run ever stored
NewStfFile_FirstRun(fs, k, r) ==
  [ file_id |-> Cardinality(fs) + 1,
    run |-> 1,
    stf_filename |-> IF k = "rest" THEN PathName(r.file_path) ELSE <<>>,
    file_url |-> r.file_url,
    file_size_bytes |-> r.file_size,
    checksum |-> r.checksum,
    status |-> FileStatusRegistered(k) ]

\* file_id is a fresh UUID: the model numbers the rows
NewStfFile(fs, k, r) ==
  [ file_id |-> Cardinality(fs) + 1,
    run |-> r.run.run_id,
    stf_filename |-> IF k = "rest" THEN PathName(r.file_path) ELSE <<>>,
    file_url |-> r.file_url,
    file_size_bytes |-> r.file_size,
    checksum |-> r.checksum,
    status |-> FileStatusRegistered(k) ]

\* ------------------------------------------------------------ environment
\* An API call or database statement may fail (network, server, database).
Fault(f) ==
  /\ f => envEvents < MaxEnvEvents
  /\ envEvents' = IF f THEN envEvents + 1 ELSE envEvents

\* A file is removed while it is being registered (earlier removals are
\* indistinguishable: nothing reads the file before stat()).
FileVanishes(p) ==
  /\ disk[p].present
  /\ \E i \in DOMAIN pc : pc[i] \in {"rf_stat", "rf_checksum"} /\ rf[i].file_path = p
  /\ envEvents < MaxEnvEvents
  /\ disk' = [disk EXCEPT ![p].present = FALSE]
  /\ envEvents' = envEvents + 1
  /\ UNCHANGED <<msgVars, fnVars, loopVars, dbVars, cycleVars, storeVars, agentVars>>

\* The DAQ writes a watched file again: its content and size change.
FileRewritten(p) ==
  /\ disk[p].present
  /\ envEvents < MaxEnvEvents
  /\ disk' = [disk EXCEPT ![p].size = @ + 1]
  /\ envEvents' = envEvents + 1
  /\ UNCHANGED <<msgVars, fnVars, loopVars, dbVars, cycleVars, storeVars, agentVars>>

\* ------------------------------------------------------------- record_file
RfIdle == [file_path |-> NoPath, file_url |-> <<>>, file_size |-> 0,
           run_number |-> 0, run |-> None, checksum |-> <<>>]
ResIdle == [outcome |-> "none", retval |-> None, ops |-> {}, conflicts |-> {}]

\* the except clause: the rest revision logs and re-raises, the orm revision
\* logs the error and returns None
ExceptOutcome(k) == IF k = "rest" THEN "raised" ELSE "error"

\* what record_file returns for a stored row: the rest revision returns the
\* STF file dictionary, the orm revision returns nothing
ReturnValue(k, row) == IF k = "rest" THEN row ELSE None

Excepted(i, op, conflict) ==
  /\ res' = [res EXCEPT ![i] = [outcome |-> ExceptOutcome(kind[i]), retval |-> None,
                                ops |-> @.ops \cup {op},
                                conflicts |-> @.conflicts \cup conflict]]
  /\ pc' = [pc EXCEPT ![i] = "rf_ret"]

\* file_url = construct_file_url(...); existing = lookup by file_url
rf_check(i) ==
  /\ pc[i] = "rf_check"
  /\ \E fault \in BOOLEAN :
       /\ Fault(fault)
       /\ LET url == construct_file_url(kind[i], rf[i].file_path, Config(kind[i]).base_url)
              found == ExistingFiles(stf_files, url)
          IN /\ rf' = [rf EXCEPT ![i].file_url = url]
             /\ IF fault
                THEN Excepted(i, "file_get", {}) /\ UNCHANGED completed
                ELSE IF FileAlreadyRecorded(kind[i], stf_files, url)
                THEN /\ res' = [res EXCEPT ![i].outcome = "already",
                                           ![i].retval = ReturnValue(kind[i],
                                              IF found = {} THEN None ELSE CHOOSE f \in found : TRUE),
                                           ![i].ops = @ \cup {"file_get"}]
                     /\ pc' = [pc EXCEPT ![i] = "rf_ret"]
                     /\ completed' = completed \cup {url}
                ELSE /\ res' = [res EXCEPT ![i].ops = @ \cup {"file_get"}]
                     /\ pc' = [pc EXCEPT ![i] = "rf_stat"]
                     /\ UNCHANGED completed
  /\ UNCHANGED <<msgVars, fnVars, loopVars, dbVars, cycleVars, storeVars, disk, kind, calls, runRet>>

\* file_stat = file_path.stat(); run_number = extract_run_number(...)
rf_stat(i) ==
  /\ pc[i] = "rf_stat"
  /\ IF disk[rf[i].file_path].present
     THEN /\ rf' = [rf EXCEPT ![i].file_size = disk[rf[i].file_path].size,
                              ![i].run_number = extract_run_number(rf[i].file_path,
                                                  Config(kind[i]).default_run_number)]
          /\ res' = [res EXCEPT ![i].ops = @ \cup {"stat"}]
          /\ pc' = [pc EXCEPT ![i] = "goc_get"]
     ELSE /\ Excepted(i, "stat", {})
          /\ UNCHANGED rf
  /\ UNCHANGED <<msgVars, fnVars, loopVars, dbVars, cycleVars, storeVars, envVars, kind, calls, runRet, completed>>

\* one entry of runRet: get_or_create_run(asked) returned run
Returned(asked, run) == [asked |-> asked, run |-> run]

\* get_or_create_run, first half: look the Run up
goc_get(i) ==
  /\ pc[i] = "goc_get"
  /\ \E fault \in BOOLEAN :
       /\ Fault(fault)
       /\ LET found == RunsByNumber(runs, rf[i].run_number) IN
          IF fault
          THEN Excepted(i, "run_get", {}) /\ UNCHANGED <<rf, runRet, runs>>
          ELSE IF found # {}
          THEN LET r0 == CHOOSE x \in found : TRUE
                   rs == RunsAfterGet(runs, r0)
                   r == CHOOSE x \in rs : x.run_id = r0.run_id
               IN /\ runs' = rs
                  /\ rf' = [rf EXCEPT ![i].run = r]
                  /\ runRet' = [runRet EXCEPT ![i] = Append(@, Returned(rf[i].run_number, r))]
                  /\ res' = [res EXCEPT ![i].ops = @ \cup {"run_get"}]
                  /\ pc' = [pc EXCEPT ![i] = "rf_checksum"]
          ELSE /\ res' = [res EXCEPT ![i].ops = @ \cup {"run_get"}]
               /\ pc' = [pc EXCEPT ![i] = "goc_create"]
               /\ UNCHANGED <<rf, runRet, runs>>
  /\ UNCHANGED <<msgVars, fnVars, loopVars, dbVars, cycleVars, stf_files, fastmon_files, dispatches, publishes, disk, kind,
                 calls, completed>>

\* get_or_create_run, second half: create the Run.  On a run_number taken in
\* the meantime, Django's get_or_create fetches the existing row; the rest
\* revision's POST fails and the except clause re-raises.
goc_create(i) ==
  /\ pc[i] = "goc_create"
  /\ \E fault \in BOOLEAN :
       /\ Fault(fault)
       /\ LET n == rf[i].run_number
              new == NewRun(runs, n, "auto_created")
          IN IF fault
             THEN Excepted(i, "run_post", {}) /\ UNCHANGED <<rf, runRet, runs>>
             ELSE IF RunNumberTaken(runs, n)
             THEN IF kind[i] = "rest"
                  THEN Excepted(i, "run_post", {"run"}) /\ UNCHANGED <<rf, runRet, runs>>
                  ELSE LET r == CHOOSE x \in RunsByNumber(runs, n) : TRUE IN
                       /\ rf' = [rf EXCEPT ![i].run = r]
                       /\ runRet' = [runRet EXCEPT ![i] = Append(@, Returned(n, r))]
                       /\ res' = [res EXCEPT ![i].ops = @ \cup {"run_post"},
                                             ![i].conflicts = @ \cup {"run"}]
                       /\ pc' = [pc EXCEPT ![i] = "rf_checksum"]
                       /\ UNCHANGED runs
             ELSE /\ runs' = runs \cup {new}
                  /\ rf' = [rf EXCEPT ![i].run = new]
                  /\ runRet' = [runRet EXCEPT ![i] = Append(@, Returned(n, new))]
                  /\ res' = [res EXCEPT ![i].ops = @ \cup {"run_post"}]
                  /\ pc' = [pc EXCEPT ![i] = "rf_checksum"]
  /\ UNCHANGED <<msgVars, fnVars, loopVars, dbVars, cycleVars, stf_files, fastmon_files, dispatches, publishes, disk, kind,
                 calls, completed>>

\* a failed read that still hands back the digest of what was read: nothing
calculate_checksum_EmptyDigest(d, p) ==
  IF d[p].present THEN <<"md5", d[p].size>> ELSE <<"md5", 0>>

\* calculate_checksum: "" when the file cannot be read
calculate_checksum(d, p) == IF d[p].present THEN <<"md5", d[p].size>> ELSE <<>>

rf_checksum(i) ==
  /\ pc[i] = "rf_checksum"
  /\ IF Config(kind[i]).calculate_checksum
     THEN /\ rf' = [rf EXCEPT ![i].checksum = calculate_checksum(disk, rf[i].file_path)]
          /\ res' = [res EXCEPT ![i].ops = @ \cup {"checksum"}]
     ELSE /\ rf' = [rf EXCEPT ![i].checksum = <<>>]
          /\ UNCHANGED res
  /\ pc' = [pc EXCEPT ![i] = "rf_create"]
  /\ UNCHANGED <<msgVars, fnVars, loopVars, dbVars, cycleVars, storeVars, envVars, kind, calls, runRet, completed>>

\* StfFile.objects.create(...) / POST /stf-files/
rf_create(i) ==
  /\ pc[i] = "rf_create"
  /\ \E fault \in BOOLEAN :
       /\ Fault(fault)
       /\ LET row == NewStfFile(stf_files, kind[i], rf[i]) IN
          IF fault
          THEN Excepted(i, "file_post", {}) /\ UNCHANGED <<stf_files, completed>>
          ELSE IF FileUrlTaken(stf_files, rf[i].file_url)
          THEN Excepted(i, "file_post", {"file"}) /\ UNCHANGED <<stf_files, completed>>
          ELSE /\ stf_files' = stf_files \cup {row}
               /\ res' = [res EXCEPT ![i].outcome = "recorded",
                                     ![i].retval = ReturnValue(kind[i], row),
                                     ![i].ops = @ \cup {"file_post"}]
               /\ pc' = [pc EXCEPT ![i] = "rf_ret"]
               /\ completed' = completed \cup {rf[i].file_url}
  /\ UNCHANGED <<msgVars, fnVars, loopVars, dbVars, cycleVars, runs, fastmon_files, dispatches, publishes, disk, kind, rf,
                 calls, runRet>>

record_file(i) ==
  \/ rf_check(i)
  \/ rf_stat(i)
  \/ goc_get(i)
  \/ goc_create(i)
  \/ rf_checksum(i)
  \/ rf_create(i)

\* ------------------------------------------------ the scan cycle (main.py)
\* cycles start_continuous_monitoring runs in one behaviour
MaxCycles == 2
\* config['tf_files_per_stf'] of the model's configuration
TfFilesPerStf == 2
\* config['tf_sequence_start']
TfSequenceStart == 1

\* the instance that runs FastMonitorAgent
Agent == "a1"
AgentName == "swf-fastmon-agent"

Injective(f) == \A a, b \in DOMAIN f : f[a] = f[b] => a = b

\* find_recent_files with lookback_time 0 (no cutoff): the regular files of
\* the watch directory matching the patterns, in directory order
FindRecentFiles(d) ==
  LET present == {p \in Paths : d[p].present} IN
  {s \in [1..Cardinality(present) -> present] : Injective(s)}

\* select_files: random.sample of max(1, int(len * fraction)) of the files
SelectionCount(n, percent) == SetMax({1, (n * percent) \div 100})
\* a selection made with random.choices: positions may repeat
select_files_WithReplacement(files, percent) ==
  IF files = <<>> THEN {<<>>}
  ELSE LET k == SetMin({SelectionCount(Len(files), percent), Len(files)}) IN
       {[i \in 1..k |-> files[f[i]]] : f \in [1..k -> 1..Len(files)]}

select_files(files, percent) ==
  IF files = <<>> THEN {<<>>}
  ELSE LET k == SetMin({SelectionCount(Len(files), percent), Len(files)}) IN
       {[i \in 1..k |-> files[f[i]]] : f \in {g \in [1..k -> 1..Len(files)] : Injective(g)}}

\* "TEST MODE": recent_files[:2]
FirstTwo(files) == IF Len(files) > 2 THEN SubSeq(files, 1, 2) ELSE files

\* Path.stem: the name without its last suffix
LastDot(n) ==
  LET S == {i \in 2..Len(n) : n[i] = "."} IN IF S = {} THEN 0 ELSE SetMax(S)
Stem(n) == IF LastDot(n) = 0 THEN n ELSE SubSeq(n, 1, LastDot(n) - 1)

DigitChar(d) == CHOOSE c \in Digits : DigitVal(c) = d
RECURSIVE ToDigits(_)
ToDigits(n) == IF n < 10 THEN <<DigitChar(n)>> ELSE ToDigits(n \div 10) \o <<DigitChar(n % 10)>>
\* f"{n:03d}"
Pad3(n) ==
  LET ds == ToDigits(n) IN
  IF Len(ds) >= 3 THEN ds ELSE [i \in 1..(3 - Len(ds)) |-> "0"] \o ds

\* a filename that leaves the sequence number out
TfFilename_NoSequence(base_filename, sequence_number) ==
  base_filename \o <<"_", "t", "f", "_">> \o <<".", "t", "f">>

TfFilename(base_filename, sequence_number) ==
  base_filename \o <<"_", "t", "f", "_">> \o Pad3(sequence_number) \o <<".", "t", "f">>

\* simulate_tf_subsamples.  The cycle keeps the identity of a subsample
\* (name, sequence number, parent); its size is drawn at random and plays no
\* part in the cycle's control flow.
simulate_tf_subsamples(stf_file, file_path) ==
  [i \in 1..TfFilesPerStf |->
     [ tf_filename |-> TfFilename(Stem(PathName(file_path)), TfSequenceStart + (i - 1)),
       sequence_number |-> TfSequenceStart + (i - 1),
       stf_parent |-> stf_file.file_id ]]

\* a row whose parent reference points at no stored STF file
NewTfFile_Orphan(tfs, stf_file, tf_metadata) ==
  [ tf_file_id |-> Cardinality(tfs) + 1,
    stf_file |-> 0,
    tf_filename |-> tf_metadata.tf_filename,
    sequence_number |-> tf_metadata.sequence_number,
    status |-> "REGISTERED" ]

\* the row POST /fastmon-files/ stores; tf_file_id is a fresh id
NewTfFile(tfs, stf_file, tf_metadata) ==
  [ tf_file_id |-> Cardinality(tfs) + 1,
    stf_file |-> stf_file.file_id,
    tf_filename |-> tf_metadata.tf_filename,
    sequence_number |-> tf_metadata.sequence_number,
    status |-> "REGISTERED" ]

\* the notification payload for one TF file
create_sse_tf_message(tf_file, stf_file, agent_name) ==
  [ msg_type |-> "tf_file_registered",
    tf_file_id |-> tf_file.tf_file_id,
    tf_filename |-> tf_file.tf_filename,
    stf_filename |-> stf_file.stf_filename,
    status |-> tf_file.status,
    agent_name |-> agent_name ]

\* one publish attempt at /messages/
Publish(message, ok) == [message |-> message, ok |-> ok]

CyIdle ==
  [ recent_files |-> <<>>, found |-> 0, k |-> 0, stf_file |-> None,
    tf_subsamples |-> <<>>, j |-> 0, tf_file |-> None,
    tf_files_registered |-> <<>>, result |-> "none",
    failed |-> {}, derived |-> {}, prev_error |-> FALSE ]

\* an error was raised in the cycle at hand: while registering a file, while
\* recording a TF file, while publishing a notification, or at the cycle's
\* own statements
CycleHadError ==
  \/ cy.result = "error"
  \/ cy.failed # {}
  \/ \E n \in 1..Len(cy.tf_files_registered) :
       IF cy.tf_files_registered[n] = None
       THEN TRUE
       ELSE \E e \in publishes :
              ~e.ok /\ e.message.tf_file_id = cy.tf_files_registered[n].tf_file_id

\* the locals of a new cycle; prev_error remembers how the last one went
NewCycle == [CyIdle EXCEPT !.prev_error = CycleHadError]

\* a loop that an error in the last cycle has ended
StartCycle_NoRestartAfterError(i) ==
  /\ pc[i] \in {"idle", "cy_done"}
  /\ ~CycleHadError
  /\ cycles < MaxCycles
  /\ cycles' = cycles + 1
  /\ cy' = NewCycle
  /\ pc' = [pc EXCEPT ![i] = "cy_scan"]
  /\ UNCHANGED <<msgVars, fnVars, loopVars, dbVars, storeVars, envVars, kind, rf, res, calls, runRet,
                 completed, has_filename, selection_percent>>

\* while True: one more turn of start_continuous_monitoring's loop
StartCycle(i) ==
  /\ pc[i] \in {"idle", "cy_done"}
  /\ cycles < MaxCycles
  /\ cycles' = cycles + 1
  /\ cy' = NewCycle
  /\ pc' = [pc EXCEPT ![i] = "cy_scan"]
  /\ UNCHANGED <<msgVars, fnVars, loopVars, dbVars, storeVars, envVars, kind, rf, res, calls, runRet, completed,
                 has_filename, selection_percent>>

\* lines 71-90: scan, sample, keep the first two
cy_scan(i) ==
  /\ pc[i] = "cy_scan"
  /\ \E recent \in FindRecentFiles(disk) :
       IF recent = <<>>
       THEN /\ cy' = [cy EXCEPT !.result = "no_files"]
            /\ pc' = [pc EXCEPT ![i] = "cy_done"]
       ELSE \E sampled \in (IF selection_percent < 100
                            THEN select_files(recent, selection_percent)
                            ELSE {recent}) :
              /\ cy' = [cy EXCEPT !.recent_files = FirstTwo(sampled),
                                  !.found = Len(recent), !.k = 1]
              /\ pc' = [pc EXCEPT ![i] = "cy_file"]
  /\ UNCHANGED <<msgVars, fnVars, loopVars, dbVars, storeVars, envVars, kind, rf, res, calls, runRet, completed,
                 cycles, has_filename, selection_percent>>

\* line 95: the next file of the for loop goes to record_stf_file
cy_record(i) ==
  /\ pc[i] = "cy_file"
  /\ cy.k <= Len(cy.recent_files)
  /\ pc' = [pc EXCEPT ![i] = "rf_check"]
  /\ rf' = [rf EXCEPT ![i] = [RfIdle EXCEPT !.file_path = cy.recent_files[cy.k]]]
  /\ res' = [res EXCEPT ![i] = ResIdle]
  /\ calls' = [calls EXCEPT ![i] = @ + 1]
  /\ UNCHANGED <<msgVars, fnVars, loopVars, dbVars, cycleVars, storeVars, envVars, kind, runRet, completed>>

\* lines 96-102 after record_stf_file returned; lines 117-120 when it raised
cy_recorded(i) ==
  /\ pc[i] = "rf_ret"
  /\ IF res[i].outcome = "raised"
     THEN /\ cy' = [cy EXCEPT !.result = "error", !.failed = @ \cup {rf[i].file_path}]
          /\ pc' = [pc EXCEPT ![i] = "cy_done"]
     ELSE /\ cy' = [cy EXCEPT !.stf_file = res[i].retval,
                              !.tf_subsamples = simulate_tf_subsamples(res[i].retval, rf[i].file_path),
                              !.j = 1,
                              !.derived = @ \cup {rf[i].file_path}]
          /\ pc' = [pc EXCEPT ![i] = "cy_tf"]
  /\ rf' = [rf EXCEPT ![i] = RfIdle]
  /\ res' = [res EXCEPT ![i] = ResIdle]
  /\ UNCHANGED <<msgVars, fnVars, loopVars, dbVars, storeVars, envVars, kind, calls, runRet, completed,
                 cycles, has_filename, selection_percent>>

\* a record_tf_file that lets the failure of the POST out: the exception
\* ends the cycle in its handler
record_tf_file_Raising(i) ==
  /\ pc[i] = "cy_tf"
  /\ cy.j <= Len(cy.tf_subsamples)
  /\ \E fault \in BOOLEAN :
       /\ Fault(fault)
       /\ LET row == NewTfFile(fastmon_files, cy.stf_file, cy.tf_subsamples[cy.j]) IN
          IF fault
          THEN /\ cy' = [cy EXCEPT !.result = "error"]
               /\ pc' = [pc EXCEPT ![i] = "cy_done"]
               /\ UNCHANGED fastmon_files
          ELSE /\ fastmon_files' = fastmon_files \cup {row}
               /\ cy' = [cy EXCEPT !.tf_file = row]
               /\ pc' = [pc EXCEPT ![i] = "cy_notify"]
  /\ UNCHANGED <<msgVars, fnVars, loopVars, dbVars, runs, stf_files, dispatches, publishes, disk,
                 kind, rf, res, calls, runRet, completed, cycles, has_filename,
                 selection_percent>>

\* line 104: record_tf_file returns the stored row, or None when the POST
\* failed; lines 105-109
record_tf_file(i) ==
  /\ pc[i] = "cy_tf"
  /\ cy.j <= Len(cy.tf_subsamples)
  /\ \E fault \in BOOLEAN :
       /\ Fault(fault)
       /\ LET row == NewTfFile(fastmon_files, cy.stf_file, cy.tf_subsamples[cy.j]) IN
          IF fault
          THEN /\ cy' = [cy EXCEPT !.tf_file = None,
                                   !.tf_files_registered = Append(@, None),
                                   !.j = @ + 1]
               /\ UNCHANGED <<fastmon_files, pc>>
          ELSE /\ fastmon_files' = fastmon_files \cup {row}
               /\ cy' = [cy EXCEPT !.tf_file = row]
               /\ pc' = [pc EXCEPT ![i] = "cy_notify"]
  /\ UNCHANGED <<msgVars, fnVars, loopVars, dbVars, runs, stf_files, dispatches, publishes, disk, kind, rf, res,
                 calls, runRet, completed, cycles, has_filename, selection_percent>>

\* lines 122-159: build the message and post it to /messages/; a failure is
\* logged and swallowed
send_tf_file_notification(i) ==
  /\ pc[i] = "cy_notify"
  /\ \E fault \in BOOLEAN :
       /\ Fault(fault)
       /\ publishes' = publishes \cup
            {Publish(create_sse_tf_message(cy.tf_file, cy.stf_file, AgentName), ~fault)}
  /\ cy' = [cy EXCEPT !.tf_files_registered = Append(@, cy.tf_file), !.j = @ + 1]
  /\ pc' = [pc EXCEPT ![i] = "cy_tf"]
  /\ UNCHANGED <<msgVars, fnVars, loopVars, dbVars, runs, stf_files, fastmon_files, dispatches, disk, kind, rf, res,
                 calls, runRet, completed, cycles, has_filename, selection_percent>>

\* line 111: the log line reads stf_file['filename']; a row without that key
\* raises KeyError into the handler of lines 117-120
cy_children_done(i) ==
  /\ pc[i] = "cy_tf"
  /\ cy.j > Len(cy.tf_subsamples)
  /\ IF has_filename
     THEN /\ cy' = [cy EXCEPT !.k = @ + 1]
          /\ pc' = [pc EXCEPT ![i] = "cy_file"]
     ELSE /\ cy' = [cy EXCEPT !.result = "error"]
          /\ pc' = [pc EXCEPT ![i] = "cy_done"]
  /\ UNCHANGED <<msgVars, fnVars, loopVars, dbVars, storeVars, envVars, kind, rf, res, calls, runRet, completed,
                 cycles, has_filename, selection_percent>>

\* lines 113-115: every file went through; report and return the list
cy_report(i) ==
  /\ pc[i] = "cy_file"
  /\ cy.k > Len(cy.recent_files)
  /\ cy' = [cy EXCEPT !.result = "ok"]
  /\ pc' = [pc EXCEPT ![i] = "cy_done"]
  /\ UNCHANGED <<msgVars, fnVars, loopVars, dbVars, storeVars, envVars, kind, rf, res, calls, runRet, completed,
                 cycles, has_filename, selection_percent>>


\* ------------------------------------- FileMonitorAgent (agents/main.py)
\* the instance that runs FileMonitorAgent
OrmAgent == "a2"

\* start(): self.running = True, then the try block is entered
fm_start(i) ==
  /\ pc[i] = "idle"
  /\ running' = [running EXCEPT ![i] = TRUE]
  /\ pc' = [pc EXCEPT ![i] = "fm_loop"]
  /\ UNCHANGED <<msgVars, fnVars, interrupted, stop_called, dbVars, cycleVars, storeVars, envVars, kind, rf, res,
                 calls, runRet, completed>>

\* while self.running: one more cycle, or the loop is left (finally:
\* self.running = False)
fm_loop(i) ==
  /\ pc[i] = "fm_loop"
  /\ IF running[i]
     THEN /\ cycles < MaxCycles
          /\ cycles' = cycles + 1
          /\ cy' = NewCycle
          /\ pc' = [pc EXCEPT ![i] = "fm_scan"]
     ELSE /\ pc' = [pc EXCEPT ![i] = "stopped"]
          /\ UNCHANGED <<cy, cycles>>
  /\ UNCHANGED <<msgVars, fnVars, loopVars, dbVars, storeVars, envVars, kind, rf, res, calls, runRet,
                 completed, has_filename, selection_percent>>

\* _process_files, lines 282-291: scan (here every file of the directory is
\* within the lookback window) and select
fm_scan(i) ==
  /\ pc[i] = "fm_scan"
  /\ \E recent \in FindRecentFiles(disk) :
       IF recent = <<>>
       THEN /\ cy' = [cy EXCEPT !.result = "no_files"]
            /\ pc' = [pc EXCEPT ![i] = "fm_sleep"]
       ELSE \E selected \in select_files(recent, selection_percent) :
              /\ cy' = [cy EXCEPT !.recent_files = selected, !.found = Len(recent), !.k = 1]
              /\ pc' = [pc EXCEPT ![i] = "fm_file"]
  /\ UNCHANGED <<msgVars, fnVars, loopVars, dbVars, storeVars, envVars, kind, rf, res, calls, runRet,
                 completed, cycles, has_filename, selection_percent>>

\* lines 294-295: the next selected file goes to _record_file
fm_record(i) ==
  /\ pc[i] = "fm_file"
  /\ cy.k <= Len(cy.recent_files)
  /\ pc' = [pc EXCEPT ![i] = "rf_check"]
  /\ rf' = [rf EXCEPT ![i] = [RfIdle EXCEPT !.file_path = cy.recent_files[cy.k]]]
  /\ res' = [res EXCEPT ![i] = ResIdle]
  /\ calls' = [calls EXCEPT ![i] = @ + 1]
  /\ UNCHANGED <<msgVars, fnVars, loopVars, dbVars, cycleVars, storeVars, envVars, kind, runRet, completed>>

\* _record_file has returned (it swallows its exceptions): on with the loop
fm_recorded(i) ==
  /\ pc[i] = "rf_ret"
  /\ cy' = [cy EXCEPT !.k = @ + 1,
                      !.failed = IF res[i].outcome = "error"
                                 THEN @ \cup {rf[i].file_path} ELSE @]
  /\ pc' = [pc EXCEPT ![i] = "fm_file"]
  /\ rf' = [rf EXCEPT ![i] = RfIdle]
  /\ res' = [res EXCEPT ![i] = ResIdle]
  /\ UNCHANGED <<msgVars, fnVars, loopVars, dbVars, storeVars, envVars, kind, calls, runRet, completed,
                 cycles, has_filename, selection_percent>>

\* the for loop is through: _process_files returns
fm_files_done(i) ==
  /\ pc[i] = "fm_file"
  /\ cy.k > Len(cy.recent_files)
  /\ cy' = [cy EXCEPT !.result = "ok"]
  /\ pc' = [pc EXCEPT ![i] = "fm_sleep"]
  /\ UNCHANGED <<msgVars, fnVars, loopVars, dbVars, storeVars, envVars, kind, rf, res, calls, runRet,
                 completed, cycles, has_filename, selection_percent>>

\* time.sleep(check_interval) returns
fm_sleep(i) ==
  /\ pc[i] = "fm_sleep"
  /\ pc' = [pc EXCEPT ![i] = "fm_loop"]
  /\ UNCHANGED <<msgVars, fnVars, loopVars, dbVars, cycleVars, storeVars, envVars, kind, rf, res,
                 calls, runRet, completed>>

\* ------------------------------------------- construction (validate_config)
\* required_keys, in the order the for loop visits them
RequiredKeys ==
  << "watch_directories", "file_patterns", "check_interval",
     "lookback_time", "selection_fraction", "default_run_number" >>

Range(seq) == {seq[n] : n \in 1..Len(seq)}

\* selection fractions a configuration may carry, in percent: below 0.0,
\* both bounds, inside, above 1.0
Fractions == {0 - 1, 0, 50, 100, 101}

\* the configurations: any subset of the required keys, and a fraction
\* where the key is there
Configs ==
  {[keys |-> K, selection_fraction |-> f] :
     K \in {S \in SUBSET Range(RequiredKeys) : "selection_fraction" \in S},
     f \in Fractions}
  \cup
  {[keys |-> K, selection_fraction |-> None] :
     K \in {S \in SUBSET Range(RequiredKeys) : "selection_fraction" \notin S}}

NoError == [raised |-> "none", message |-> <<>>]
ValueError(message) == [raised |-> "ValueError", message |-> message]

\* a validation that forgets the range of the fraction
validate_config_KeysOnly(cfg) ==
  LET missing == {n \in 1..Len(RequiredKeys) : RequiredKeys[n] \notin cfg.keys} IN
  IF missing # {}
  THEN ValueError(<<"Missing required configuration key", RequiredKeys[SetMin(missing)]>>)
  ELSE NoError

\* validate_config / FileMonitorAgent._validate_config: the first missing
\* key raises, then a fraction outside 0.0 <= f <= 1.0 raises
validate_config(cfg) ==
  LET missing == {n \in 1..Len(RequiredKeys) : RequiredKeys[n] \notin cfg.keys} IN
  IF missing # {}
  THEN ValueError(<<"Missing required configuration key", RequiredKeys[SetMin(missing)]>>)
  ELSE IF ~(0 <= cfg.selection_fraction /\ cfg.selection_fraction <= 100)
       THEN ValueError(<<"selection_fraction must be between 0.0 and 1.0">>)
       ELSE NoError

\* __init__ of either agent: the running flag is set, then the configuration
\* is validated; a ValueError leaves the constructor and main() with it
Construct(i) ==
  /\ pc[i] = "new"
  /\ running' = [running EXCEPT ![i] = (kind[i] = "rest")]
  /\ result' = validate_config(config)
  /\ IF result'.raised = "none"
     THEN /\ pc' = [pc EXCEPT ![i] = "idle"]
          /\ selection_percent' = config.selection_fraction
     ELSE /\ pc' = [pc EXCEPT ![i] = "failed"]
          /\ UNCHANGED selection_percent
  /\ UNCHANGED <<msgVars, config, args, interrupted, stop_called, dbVars, storeVars, envVars, kind, rf, res,
                 calls, runRet, completed, cy, cycles, has_filename>>

\* ------------------------------------------- calls of fastmon_utils functions
\* candidate lists of up to MaxFiles paths, and selection fractions inside
\* [0,1] in percent: the arguments of select_files
MaxFiles == 4
SelectFilesArgs ==
  {[fn |-> "select_files", files |-> l, selection_fraction |-> f] :
     l \in UNION {[1..n -> {"a.stf", "b.stf", "c.stf", "d.stf"}] : n \in 0..MaxFiles},
     f \in {0, 10, 50, 75, 100}}

\* select_files(files, selection_fraction, logger) returns
call_select_files ==
  /\ result = None
  /\ args.fn = "select_files"
  /\ \E selected \in select_files(args.files, args.selection_fraction) :
       result' = [value |-> selected]
  /\ UNCHANGED <<msgVars, config, args, loopVars, dbVars, cycleVars, storeVars, envVars, agentVars>>

\* config.get(key, default)
ConfigGet(cfg, key, default) == IF key \in DOMAIN cfg THEN cfg[key] ELSE default

\* the defaults of simulate_tf_subsamples; fractions are in percent
DefaultTfFilesPerStf == 7
DefaultTfSizePercent == 15
DefaultTfSequenceStart == 1

\* random.uniform(0.8, 1.2), in thousandths: the two ends of the interval
Jitters == {800, 1200}

\* a size rounded up instead of cut off
TfSize_Ceil(stf_size, percent, jitter) ==
  (stf_size * percent * jitter + 99999) \div 100000

\* int(stf_size * tf_size_fraction * random.uniform(0.8, 1.2)): int() cuts
\* the fraction off
TfSize(stf_size, percent, jitter) == (stf_size * percent * jitter) \div 100000

\* children numbered from tf_sequence_start + 1
simulate_tf_subsamples_FromOne(stf_file, file_path, cfg, jitter) ==
  IF stf_file = None THEN <<>>
  ELSE
    [i \in 1..ConfigGet(cfg, "tf_files_per_stf", DefaultTfFilesPerStf) |->
       LET sequence_number == ConfigGet(cfg, "tf_sequence_start", DefaultTfSequenceStart) + i IN
       [ tf_filename |-> TfFilename(Stem(PathName(file_path)), sequence_number),
         file_size_bytes |-> TfSize(ConfigGet(stf_file, "file_size_bytes", 0),
                                    ConfigGet(cfg, "tf_size_fraction", DefaultTfSizePercent),
                                    jitter[i]),
         sequence_number |-> sequence_number,
         stf_parent |-> stf_file.file_id,
         metadata |-> [ simulation |-> TRUE, created_from |-> file_path,
                        sequence_number |-> sequence_number,
                        tf_size_fraction |->
                          ConfigGet(cfg, "tf_size_fraction", DefaultTfSizePercent),
                        agent_name |-> ConfigGet(cfg, "agent_name", AgentName) ] ]]

\* the except clause hands back what the loop had built: with no parent, one
\* entry per configured child
simulate_tf_subsamples_KeepsBuilt(stf_file, file_path, cfg, jitter) ==
  [i \in 1..ConfigGet(cfg, "tf_files_per_stf", DefaultTfFilesPerStf) |->
     [ tf_filename |-> TfFilename(Stem(PathName(file_path)),
                                  ConfigGet(cfg, "tf_sequence_start", DefaultTfSequenceStart)
                                    + (i - 1)) ]]

\* simulate_tf_subsamples(stf_file, file_path, config, logger) with the
\* uniform draws it makes, one per child.  The whole body is in one try block
\* whose except clause returns []: stf_file None raises at stf_file.get, a
\* parent without file_id raises in the first child, and a parent without
\* stf_filename raises in the closing log line
simulate_tf_subsamples_drawing(stf_file, file_path, cfg, jitter) ==
  IF stf_file = None THEN <<>>
  ELSE IF "stf_filename" \notin DOMAIN stf_file THEN <<>>
  ELSE IF "file_id" \notin DOMAIN stf_file
          /\ ConfigGet(cfg, "tf_files_per_stf", DefaultTfFilesPerStf) > 0 THEN <<>>
  ELSE
    [i \in 1..ConfigGet(cfg, "tf_files_per_stf", DefaultTfFilesPerStf) |->
       LET sequence_number ==
             ConfigGet(cfg, "tf_sequence_start", DefaultTfSequenceStart) + (i - 1) IN
       [ tf_filename |-> TfFilename(Stem(PathName(file_path)), sequence_number),
         file_size_bytes |-> TfSize(ConfigGet(stf_file, "file_size_bytes", 0),
                                    ConfigGet(cfg, "tf_size_fraction", DefaultTfSizePercent),
                                    jitter[i]),
         sequence_number |-> sequence_number,
         stf_parent |-> stf_file.file_id,
         metadata |-> [ simulation |-> TRUE, created_from |-> file_path,
                        sequence_number |-> sequence_number,
                        tf_size_fraction |->
                          ConfigGet(cfg, "tf_size_fraction", DefaultTfSizePercent),
                        agent_name |-> ConfigGet(cfg, "agent_name", AgentName) ] ]]

\* the configurations of simulate_tf_subsamples: each key set or left out
TfConfigs ==
  {c \in UNION {[K -> {0, 2, 20, 999}] :
                  K \in SUBSET {"tf_files_per_stf", "tf_size_fraction", "tf_sequence_start"}} :
     /\ "tf_files_per_stf" \in DOMAIN c => c["tf_files_per_stf"] \in {0, 2}
     /\ "tf_size_fraction" \in DOMAIN c => c["tf_size_fraction"] = 20
     /\ "tf_sequence_start" \in DOMAIN c => c["tf_sequence_start"] = 999}

\* the STF row handed in, or None, and the file's path
SimulateTfArgs ==
  {[fn |-> "simulate_tf_subsamples", stf_file |-> r, file_path |-> p] :
     r \in { [file_id |-> 1, stf_filename |-> Name1, file_size_bytes |-> 7],
             [file_id |-> 2, stf_filename |-> Name1, file_size_bytes |-> 10000],
             None },
     p \in Paths}

\* simulate_tf_subsamples returns; it may be called again with the same
\* arguments
call_simulate_tf_subsamples ==
  /\ args.fn = "simulate_tf_subsamples"
  /\ \E jitter \in [1..(IF args.stf_file = None THEN 0
                         ELSE ConfigGet(config, "tf_files_per_stf", DefaultTfFilesPerStf))
                      -> Jitters] :
       result' = [ value |-> simulate_tf_subsamples_drawing(args.stf_file, args.file_path,
                                                          config, jitter),
                   jitter |-> jitter ]
  /\ UNCHANGED <<msgVars, config, args, loopVars, dbVars, cycleVars, storeVars, envVars, agentVars>>

\* file names put together from up to MaxTokens of these pieces
MaxTokens == 4
RunTokens ==
  { <<"r">>, <<"R">>, <<"r", "u", "n">>, <<"R", "U", "N">>, <<"r", "u", "n", "_">>,
    <<"R", "u", "n", "_">>, <<"1">>, <<"0", "2">>, <<"x">> }

RECURSIVE Concat(_)
Concat(ts) == IF ts = <<>> THEN <<>> ELSE Head(ts) \o Concat(Tail(ts))

\* the arguments of extract_run_number: a path and the configured default
RunNumberArgs ==
  {[fn |-> "extract_run_number", file_path |-> <<"/">> \o Concat(ts),
    default_run_number |-> d] :
     ts \in UNION {[1..n -> RunTokens] : n \in 0..MaxTokens},
     d \in {DefaultRunNumber, 77}}

\* extract_run_number(file_path, default_run_number) returns
call_extract_run_number ==
  /\ result = None
  /\ args.fn = "extract_run_number"
  /\ result' = [value |-> extract_run_number(args.file_path, args.default_run_number)]
  /\ UNCHANGED <<msgVars, config, args, loopVars, dbVars, cycleVars, storeVars, envVars, agentVars>>

\* trailing slashes a configured base URL carries
MaxSlashes == 2

\* the arguments of construct_file_url: a path, and a base URL that ends in
\* no slash; the calls differ in the slashes appended to the base
ConstructUrlArgs ==
  {[fn |-> "construct_file_url", revision |-> k, file_path |-> p, base_url |-> b] :
     k \in Kinds, p \in Paths,
     b \in {<<"f", "i", "l", "e", ":">>, <<"h", "t", "t", "p", ":", "/", "/", "h">>}}

\* construct_file_url(file_path, base_url + n * '/') returns, for one more n
call_construct_file_url ==
  /\ args.fn = "construct_file_url"
  /\ \E n \in 0..MaxSlashes :
       LET done == IF result = None THEN <<>> ELSE result.calls
           base_url == args.base_url \o [j \in 1..n |-> "/"]
       IN /\ \A c \in 1..Len(done) : done[c].slashes # n
          /\ result' = [calls |-> Append(done,
               [ slashes |-> n,
                 value |-> construct_file_url(args.revision, args.file_path, base_url) ])]
  /\ UNCHANGED <<msgVars, config, args, loopVars, dbVars, cycleVars, storeVars, envVars, agentVars>>

\* what a watch directory may hold, in the order glob yields it: regular
\* files created 30, 60 or 120 minutes before the scan (now - st_ctime), and
\* an entry that matches the pattern but is no regular file; or the
\* directory is missing
DirectoryStates ==
  LET new == [name |-> "new.stf", is_file |-> TRUE, age |-> 30]
      edge == [name |-> "edge.stf", is_file |-> TRUE, age |-> 60]
      old == [name |-> "old.stf", is_file |-> TRUE, age |-> 120]
      sub == [name |-> "sub.stf", is_file |-> FALSE, age |-> 30]
  IN {[exists |-> FALSE, entries |-> <<>>]} \cup
     {[exists |-> TRUE, entries |-> l] :
        l \in {<<>>, <<new>>, <<old>>, <<edge>>, <<new, old>>, <<sub, new>>}}

\* the arguments of a scan: up to MaxDirs watch directories out of two, the
\* lookback time (<<>> for None, <<m>> for m minutes), the function
\* (find_recent_files of fastmon_utils, or
\* FileMonitorAgent._find_recent_files) and the file system
MaxDirs == 2
FindRecentArgs ==
  {[fn |-> "find_recent_files", variant |-> v, watch_directories |-> w,
    lookback_time |-> t, fs |-> f] :
     v \in {"utils", "agent"},
     w \in UNION {[1..n -> {"d1", "d2"}] : n \in 1..MaxDirs},
     t \in {<<>>, <<0>>, <<60>>},
     f \in [{"d1", "d2"} -> DirectoryStates]}

\* the paths one directory adds to matching_files when its scan gets through
\* `scanned` entries (all of them, or those before an error): regular files
\* that pass the cutoff.  find_recent_files has a cutoff when lookback_time
\* is truthy and skips st_ctime < cutoff; _find_recent_files always has one
\* and keeps st_ctime > cutoff.
ScanDirectory(a, directory, scanned) ==
  LET d == a.fs[directory]
      keep == {n \in 1..scanned :
                 /\ d.entries[n].is_file
                 /\ IF a.variant = "utils"
                    THEN \/ a.lookback_time \in {<<>>, <<0>>}
                         \/ ~(d.entries[n].age > a.lookback_time[1])
                    ELSE d.entries[n].age < a.lookback_time[1]}
      pick[n \in 0..scanned] ==
        IF n = 0 THEN <<>>
        ELSE IF n \in keep THEN Append(pick[n - 1], <<directory, d.entries[n].name>>)
             ELSE pick[n - 1]
  IN IF d.exists THEN pick[scanned] ELSE <<>>

\* a scan that gives up at the first directory it cannot read
find_recent_files_StopAtError(a, stops) ==
  LET reached == {n \in 1..Len(a.watch_directories) :
                    \A m \in 1..(n - 1) :
                      /\ a.fs[a.watch_directories[m]].exists
                      /\ stops[m] = Len(a.fs[a.watch_directories[m]].entries) + 1}
      all[n \in 0..Len(a.watch_directories)] ==
        IF n = 0 THEN <<>>
        ELSE all[n - 1] \o
             (IF n \in reached
              THEN ScanDirectory(a, a.watch_directories[n],
                     SetMin({stops[n], Len(a.fs[a.watch_directories[n]].entries)}))
              ELSE <<>>)
  IN all[Len(a.watch_directories)]

\* find_recent_files / _find_recent_files: the directories in turn; a
\* missing one is skipped, an error inside the try ends that directory's
\* scan only.  stops[n] is the number of entries of the n-th directory
\* scanned before its error (one past the last entry: no error)
find_recent_files(a, stops) ==
  LET all[n \in 0..Len(a.watch_directories)] ==
        IF n = 0 THEN <<>>
        ELSE all[n - 1] \o
             ScanDirectory(a, a.watch_directories[n],
               SetMin({stops[n], Len(a.fs[a.watch_directories[n]].entries)}))
  IN all[Len(a.watch_directories)]

\* the scan returns; errors names the directories whose scan raised.
\* _find_recent_files computes timedelta(minutes=lookback_time) before the
\* loop and outside any try: None makes it raise TypeError.
call_find_recent_files ==
  /\ result = None
  /\ args.fn = "find_recent_files"
  /\ IF args.variant = "agent" /\ args.lookback_time = <<>>
     THEN result' = [value |-> <<>>, errors |-> {}, raised |-> "TypeError"]
     ELSE
       \E stops \in [1..Len(args.watch_directories) -> 0..3] :
         /\ \A n \in 1..Len(args.watch_directories) :
              LET d == args.fs[args.watch_directories[n]] IN
              IF d.exists THEN stops[n] <= Len(d.entries) + 1 ELSE stops[n] = 0
         /\ result' =
              [ value |-> find_recent_files(args, stops),
                errors |-> {n \in 1..Len(args.watch_directories) :
                              LET d == args.fs[args.watch_directories[n]] IN
                              d.exists /\ stops[n] <= Len(d.entries)},
                raised |-> "none" ]
  /\ UNCHANGED <<msgVars, config, args, loopVars, dbVars, cycleVars, storeVars, envVars, agentVars>>

\* ------------------------------------------------------------- interrupts
\* control points inside the try block of start() /
\* start_continuous_monitoring()
InLoop(i) == pc[i] \notin {"idle", "off", "interrupted", "stopped"}

\* KeyboardInterrupt is raised at the statement the agent is at.  It is not
\* an Exception: no handler below the loop's catches it, and the frames of
\* the cycle and of record_file are unwound with their locals.
Interrupt(i) ==
  /\ InLoop(i)
  /\ ~interrupted
  /\ interrupted' = TRUE
  /\ pc' = [pc EXCEPT ![i] = "interrupted"]
  /\ cy' = CyIdle
  /\ rf' = [rf EXCEPT ![i] = RfIdle]
  /\ res' = [res EXCEPT ![i] = ResIdle]
  /\ UNCHANGED <<msgVars, fnVars, running, stop_called, dbVars, storeVars, envVars, kind, calls, runRet,
                 completed, cycles, has_filename, selection_percent>>

\* the running flag when the loop's finally clause is through: start() sets
\* it to False, start_continuous_monitoring leaves it alone
RunningAfterLoop(k, r) == IF k = "orm" THEN FALSE ELSE r

\* except KeyboardInterrupt: log; finally: ...; the method returns
loop_exit(i) ==
  /\ pc[i] = "interrupted"
  /\ running' = [running EXCEPT ![i] = RunningAfterLoop(kind[i], @)]
  /\ pc' = [pc EXCEPT ![i] = "stopped"]
  /\ UNCHANGED <<msgVars, fnVars, interrupted, stop_called, dbVars, cycleVars, storeVars, envVars, kind, rf, res,
                 calls, runRet, completed>>

\* FileMonitorAgent.stop(), called from another thread once the agent is
\* constructed: self.running = False
stop(i) ==
  /\ pc[i] \notin {"new", "off", "failed", "stopped"}
  /\ ~stop_called
  /\ stop_called' = TRUE
  /\ running' = [running EXCEPT ![i] = FALSE]
  /\ UNCHANGED <<msgVars, fnVars, interrupted, dbVars, cycleVars, storeVars, envVars, agentVars>>

\* ----------------------------------------------------- the listener client

\* FastMonitoringClient.__init__: connection = None, running = False
ClientConstructed == [pc |-> "idle", running |-> FALSE, connected |-> FALSE]

\* connect_activemq: the connection is made, the listener set, connect() and
\* then subscribe() are called; any exception is logged and answered by False
\* with the connection left as the failing step found it
connect_activemq(outcome) ==
  CASE outcome = "connect_fails" -> [ok |-> FALSE, connected |-> FALSE]
    [] outcome = "subscribe_fails" -> [ok |-> FALSE, connected |-> TRUE]
    [] OTHER -> [ok |-> TRUE, connected |-> TRUE]

\* stop_monitoring: running = False, and disconnect() if connected
stop_monitoring(c) == [c EXCEPT !.running = FALSE, !.connected = FALSE]

\* start_monitoring up to its loop: it returns at once when connect_activemq
\* answers False, else sets running and sleeps in the loop
start_monitoring(outcome) ==
  /\ client.pc = "idle"
  /\ LET c == connect_activemq(outcome)
     IN client' = IF c.ok
                    THEN [pc |-> "monitoring", running |-> TRUE, connected |-> c.connected]
                    ELSE [client EXCEPT !.pc = "returned", !.connected = c.connected]
  /\ UNCHANGED <<TfMetadata, client_runs, handled, fnVars, loopVars, dbVars, cycleVars,
                 storeVars, envVars, agentVars>>

\* the loop of start_monitoring ends, by KeyboardInterrupt in the sleep or by
\* the running flag found False; the finally clause calls stop_monitoring
monitoring_ends(by_interrupt) ==
  /\ client.pc = "monitoring"
  /\ by_interrupt \/ ~client.running
  /\ client' = [stop_monitoring(client) EXCEPT !.pc = "returned"]
  /\ UNCHANGED <<TfMetadata, client_runs, handled, fnVars, loopVars, dbVars, cycleVars,
                 storeVars, envVars, agentVars>>

\* stop_monitoring called from outside the loop while it sleeps
call_stop_monitoring ==
  /\ client.pc = "monitoring"
  /\ client.running
  /\ client' = stop_monitoring(client)
  /\ UNCHANGED <<TfMetadata, client_runs, handled, fnVars, loopVars, dbVars, cycleVars,
                 storeVars, envVars, agentVars>>

\* --------------------------------------------------------- DatabaseManager
\* DatabaseManager calls one client makes under SpecDb
MaxDbCalls == 2

\* database/database.py (Django) and database.py (SQLAlchemy)
Managers == {"django", "sqlalchemy"}
Urls == {construct_file_url("orm", p, BaseUrl) : p \in Paths}
RunIds == 1..2

DbIdle ==
  [ mgr |-> "none", pc |-> "idle", run_id |-> 0, file_url |-> <<>>,
    session |-> "none", closed |-> FALSE, pending |-> {},
    ret |-> None, raised |-> "none", conflict |-> FALSE, stored |-> {} ]

\* the row insert_stf_file builds; file_id is a fresh UUID
DbStfFile(fs, run_id, url) ==
  [ file_id |-> Cardinality(fs) + 1, run |-> run_id, machine_state |-> "physics",
    file_url |-> url, status |-> "registered" ]

RunIdExists(rs, run_id) == \E r \in rs : r.run_id = run_id

CallInsertStfFile(m, run_id, url) ==
  /\ db.pc = "idle"
  /\ dbCalls < MaxDbCalls
  /\ dbCalls' = dbCalls + 1
  /\ db' = [DbIdle EXCEPT !.mgr = m, !.run_id = run_id, !.file_url = url,
                          !.pc = IF m = "django" THEN "dj_insert" ELSE "sa_open",
                          !.stored = stf_files]
  /\ UNCHANGED <<msgVars, fnVars, loopVars, cycleVars, storeVars, envVars, agentVars>>

\* database/database.py insert_stf_file: Run.objects.get, StfFile.objects.create;
\* DoesNotExist becomes ValueError, anything else is logged and re-raised
dj_insert_stf_file ==
  /\ db.pc = "dj_insert"
  /\ \E fault \in BOOLEAN :
       /\ Fault(fault)
       /\ LET row == DbStfFile(stf_files, db.run_id, db.file_url) IN
          IF fault
          THEN db' = [db EXCEPT !.raised = "Exception", !.pc = "done"] /\ UNCHANGED stf_files
          ELSE IF ~RunIdExists(runs, db.run_id)
          THEN db' = [db EXCEPT !.raised = "ValueError", !.pc = "done"] /\ UNCHANGED stf_files
          ELSE IF FileUrlTaken(stf_files, db.file_url)
          THEN /\ db' = [db EXCEPT !.raised = "IntegrityError", !.conflict = TRUE, !.pc = "done"]
               /\ UNCHANGED stf_files
          ELSE /\ stf_files' = stf_files \cup {row}
               /\ db' = [db EXCEPT !.ret = row.file_id, !.pc = "done"]
  /\ UNCHANGED <<msgVars, fnVars, loopVars, cycleVars, dbCalls, runs, fastmon_files, dispatches, publishes, disk, agentVars>>

\* database.py get_session: session = self.SessionLocal()
get_session_open ==
  /\ db.pc = "sa_open"
  /\ db' = [db EXCEPT !.session = "open", !.pc = "sa_body"]
  /\ UNCHANGED <<msgVars, fnVars, loopVars, cycleVars, dbCalls, storeVars, envVars, agentVars>>

\* database.py insert_stf_file, the body of the with block: session.add,
\* session.flush (the INSERT is sent: foreign key and unique constraints are
\* checked), return file_id
sa_insert_stf_file ==
  /\ db.pc = "sa_body"
  /\ \E fault \in BOOLEAN :
       /\ Fault(fault)
       /\ LET row == DbStfFile(stf_files, db.run_id, db.file_url) IN
          IF fault
          THEN db' = [db EXCEPT !.raised = "Exception", !.pc = "sa_except"]
          ELSE IF ~RunIdExists(runs, db.run_id)
          THEN db' = [db EXCEPT !.raised = "IntegrityError", !.pc = "sa_except"]
          ELSE IF FileUrlTaken(stf_files, db.file_url)
          THEN db' = [db EXCEPT !.raised = "IntegrityError", !.conflict = TRUE,
                                !.pc = "sa_except"]
          ELSE db' = [db EXCEPT !.pending = {row}, !.ret = row.file_id, !.pc = "sa_commit"]
  /\ UNCHANGED <<msgVars, fnVars, loopVars, cycleVars, dbCalls, storeVars, disk, agentVars>>

\* get_session after the yield: session.commit()
get_session_commit ==
  /\ db.pc = "sa_commit"
  /\ \E fault \in BOOLEAN :
       /\ Fault(fault)
       /\ IF fault
          THEN /\ db' = [db EXCEPT !.raised = "Exception", !.ret = None, !.pc = "sa_except"]
               /\ UNCHANGED stf_files
          ELSE /\ stf_files' = stf_files \cup db.pending
               /\ db' = [db EXCEPT !.session = "committed", !.pending = {}, !.pc = "sa_close"]
  /\ UNCHANGED <<msgVars, fnVars, loopVars, cycleVars, dbCalls, runs, fastmon_files, dispatches, publishes, disk, agentVars>>

\* mutant: the except clause re-raises without session.rollback()
get_session_except_NoRollback ==
  /\ db.pc = "sa_except"
  /\ db' = [db EXCEPT !.pc = "sa_close"]
  /\ UNCHANGED <<msgVars, fnVars, loopVars, cycleVars, dbCalls, storeVars, envVars, agentVars>>

\* get_session's except clause: session.rollback(), log, raise
get_session_except ==
  /\ db.pc = "sa_except"
  /\ db' = [db EXCEPT !.session = "rolled_back", !.pending = {}, !.pc = "sa_close"]
  /\ UNCHANGED <<msgVars, fnVars, loopVars, cycleVars, dbCalls, storeVars, envVars, agentVars>>

\* get_session's finally clause: session.close()
get_session_finally ==
  /\ db.pc = "sa_close"
  /\ db' = [db EXCEPT !.closed = TRUE, !.pc = "done"]
  /\ UNCHANGED <<msgVars, fnVars, loopVars, cycleVars, dbCalls, storeVars, envVars, agentVars>>

\* the call has returned or raised; the client goes on
DbReturn ==
  /\ db.pc = "done"
  /\ db' = DbIdle
  /\ UNCHANGED <<msgVars, fnVars, loopVars, cycleVars, dbCalls, storeVars, envVars, agentVars>>


\* --------------------------------------------------------- inbound messages
\* frames on_message handles in one behaviour
MaxMessages == 2

\* frame.body: text that json.loads rejects, or the text of a JSON object
NotJson == [json |-> FALSE, what |-> "not_json"]
JsonObject(what, obj) == [json |-> TRUE, what |-> what, obj |-> obj]

\* dict.get(key): the value, or None
Get(d, key) == IF key \in DOMAIN d THEN <<d[key]>> ELSE <<>>

\* frames on FastMonitorAgent's subscription
AgentFrames ==
  { NotJson,
    JsonObject("stf_gen", [msg_type |-> "stf_gen", filename |-> Name1, run_id |-> 2]),
    JsonObject("stf_gen_no_filename", [msg_type |-> "stf_gen", run_id |-> 2]),
    JsonObject("run_imminent", [msg_type |-> "run_imminent", run_id |-> 2]) }

\* sample_timeframes, main.py 189-214: nothing to do without a filename;
\* with one, line 203 calls simulate_tf_subsamples(stf_file, file_path,
\* config, logger) with three arguments, which raises TypeError before any
\* TF file is recorded
sample_timeframes(message_data) ==
  IF Get(message_data, "filename") = <<>>
  THEN [raised |-> "none", tf_files_registered |-> <<>>]
  ELSE [raised |-> "TypeError", tf_files_registered |-> <<>>]

\* FastMonitorAgent.on_message, main.py 162-186: what the handler did with
\* the frame; every exception of the try block ends in the ERROR report
AgentHandled(body) ==
  [ handler |-> "agent",
    body |-> body,
    outcome |-> IF ~body.json THEN "error"
                ELSE IF Get(body.obj, "msg_type") = <<"stf_gen">>
                THEN (IF sample_timeframes(body.obj).raised = "none"
                      THEN "sampled" ELSE "error")
                ELSE "ignored",
    raised |-> FALSE ]

\* FastMonitorAgent.on_message: a frame arrives on the agent's subscription
on_message(i) ==
  /\ Len(handled) < MaxMessages
  /\ \E body \in AgentFrames :
       handled' = Append(handled, AgentHandled(body))
  /\ UNCHANGED <<TfMetadata, client_runs, client, fnVars, loopVars, dbVars, cycleVars, storeVars,
                 envVars, agentVars>>

\* the payload of the interface description, with its minimum fields
MinimumPayload ==
  [ tf_file_id |-> 7, tf_filename |-> "run_2_tf_001.tf", file_size_bytes |-> 150,
    stf_filename |-> "run_2.stf", run_number |-> 2, status |-> "REGISTERED",
    timestamp |-> "2025-01-01T00:00:00", agent_name |-> AgentName ]

\* the oldest notification the pipeline has published that the listener has
\* not been handed yet
NextPublished ==
  LET got == {handled[n].body.obj.tf_file_id :
                n \in {m \in 1..Len(handled) : handled[m].body.what = "published"}}
      waiting == {e \in publishes : e.ok /\ e.message.tf_file_id \notin got}
  IN {e.message : e \in {w \in waiting :
                           \A o \in waiting : w.message.tf_file_id <= o.message.tf_file_id}}

\* frames on the listener's subscription
ListenerFrames ==
  { NotJson,
    JsonObject("minimum", MinimumPayload),
    JsonObject("file_id", [ file_id |-> "tf-7", run_number |-> 2, file_size_bytes |-> 150,
                            status |-> "REGISTERED" ]) }
  \cup {JsonObject("published", m) : m \in NextPublished}

\* a block that keeps what was written before the exception
transaction_atomic_NoRollback(rows, run_rows, work) == work

\* with transaction.atomic(), line 87, left by an exception: every write of
\* the block is undone
transaction_atomic(rows, run_rows, work) ==
  [TfMetadata |-> rows, Run |-> run_rows, stored |-> FALSE]

\* a store that inserts a row for every message
store_tf_metadata_AlwaysCreate(rows, run_rows, tf_data, fault) ==
  LET missing == Get(tf_data, "file_id") = <<>> \/ Get(tf_data, "run_number") = <<>>
      found == {r \in rows : r.file_id = tf_data.file_id}
      row == [ id |-> IF found # {} THEN (CHOOSE r \in found : TRUE).id
                      ELSE SetMax({0} \cup {r.id : r \in rows}) + 1,
               file_id |-> tf_data.file_id,
               run_number |-> tf_data.run_number,
               file_size_bytes |-> Get(tf_data, "file_size_bytes"),
               status |-> Get(tf_data, "status") ]
      upserted == rows \cup {[row EXCEPT !.id = SetMax({0} \cup {r.id : r \in rows}) + 1]}
      n == tf_data.run_number
      got == IF \E r \in run_rows : r.run_number = n THEN run_rows
             ELSE run_rows \cup {[run_number |-> n, total_tfs |-> 0]}
      tf_count == Cardinality({r \in upserted : r.run_number = n})
      saved == {r \in got : r.run_number # n} \cup {[run_number |-> n, total_tfs |-> tf_count]}
      work ==
        IF missing \/ fault = "update_or_create"
        THEN [TfMetadata |-> rows, Run |-> run_rows, stored |-> FALSE]
        ELSE IF n = 0
        THEN [TfMetadata |-> upserted, Run |-> run_rows, stored |-> TRUE]
        ELSE IF fault = "get_or_create"
        THEN [TfMetadata |-> upserted, Run |-> run_rows, stored |-> FALSE]
        ELSE IF fault = "save"
        THEN [TfMetadata |-> upserted, Run |-> got, stored |-> FALSE]
        ELSE [TfMetadata |-> upserted, Run |-> saved, stored |-> TRUE]
  IN IF work.stored THEN work ELSE transaction_atomic(rows, run_rows, work)

\* store_tf_metadata, lines 84-141: the tables after the call.
\* update_or_create(file_id=file_id, defaults={...}) replaces the row of that
\* file_id; columns file_id and run_number are NOT NULL, so a message without
\* one of them is an IntegrityError.  `fault` names the statement at which
\* the database fails, if it does.  An exception leaves the atomic block and
\* is logged by the except clause of line 140.
store_tf_metadata(rows, run_rows, tf_data, fault) ==
  LET missing == Get(tf_data, "file_id") = <<>> \/ Get(tf_data, "run_number") = <<>>
      found == {r \in rows : r.file_id = tf_data.file_id}
      row == [ id |-> IF found # {} THEN (CHOOSE r \in found : TRUE).id
                      ELSE SetMax({0} \cup {r.id : r \in rows}) + 1,
               file_id |-> tf_data.file_id,
               run_number |-> tf_data.run_number,
               file_size_bytes |-> Get(tf_data, "file_size_bytes"),
               status |-> Get(tf_data, "status") ]
      upserted == (rows \ found) \cup {row}
      n == tf_data.run_number
      got == IF \E r \in run_rows : r.run_number = n THEN run_rows
             ELSE run_rows \cup {[run_number |-> n, total_tfs |-> 0]}
      tf_count == Cardinality({r \in upserted : r.run_number = n})
      saved == {r \in got : r.run_number # n} \cup {[run_number |-> n, total_tfs |-> tf_count]}
      work ==
        IF missing \/ fault = "update_or_create"
        THEN [TfMetadata |-> rows, Run |-> run_rows, stored |-> FALSE]
        ELSE IF n = 0
        THEN [TfMetadata |-> upserted, Run |-> run_rows, stored |-> TRUE]
        ELSE IF fault = "get_or_create"
        THEN [TfMetadata |-> upserted, Run |-> run_rows, stored |-> FALSE]
        ELSE IF fault = "save"
        THEN [TfMetadata |-> upserted, Run |-> got, stored |-> FALSE]
        ELSE [TfMetadata |-> upserted, Run |-> saved, stored |-> TRUE]
  IN IF work.stored THEN work ELSE transaction_atomic(rows, run_rows, work)

\* ActiveMQListener.on_message, lines 218-222: the frame goes to the store
\* when it decodes and carries 'file_id'
listener_accepts(body) == body.json /\ "file_id" \in DOMAIN body.obj

\* a handler out of which the decoding error escapes
ListenerHandled_DecodeErrorEscapes(body, stored) ==
  [ handler |-> "client", body |-> body,
    outcome |-> IF stored THEN "stored" ELSE "dropped", raised |-> ~body.json ]

\* lines 216-230: the two except clauses catch whatever the try block
\* raises, and store_tf_metadata catches its own
ListenerHandled(body, stored) ==
  [ handler |-> "client", body |-> body,
    outcome |-> IF stored THEN "stored" ELSE "dropped", raised |-> FALSE ]

\* ActiveMQListener.on_message, client main.py 215-230
listener_on_message ==
  /\ Len(handled) < MaxMessages
  /\ \E body \in ListenerFrames :
       LET after == IF listener_accepts(body)
                    THEN store_tf_metadata(TfMetadata, client_runs, body.obj, "none")
                    ELSE [TfMetadata |-> TfMetadata, Run |-> client_runs, stored |-> FALSE]
       IN /\ TfMetadata' = after.TfMetadata
          /\ client_runs' = after.Run
          /\ handled' = Append(handled, ListenerHandled(body, after.stored))
  /\ UNCHANGED <<client, fnVars, loopVars, dbVars, cycleVars, storeVars, envVars, agentVars>>

\* the messages the broker may deliver to the listener's store, in any order
\* and any number of times: two files, one of them also reported under
\* another run, under run 0 and without a run
StoreTfMetadataArgs ==
  {[ fn |-> "store_tf_metadata",
     deliveries |->
       { [file_id |-> "tf-7", run_number |-> 2, status |-> "REGISTERED"],
         [file_id |-> "tf-7", run_number |-> 3, status |-> "REGISTERED"],
         [file_id |-> "tf-8", run_number |-> 2, status |-> "REGISTERED"],
         [file_id |-> "tf-8", run_number |-> 0, status |-> "REGISTERED"],
         [file_id |-> "tf-8", status |-> "REGISTERED"] } ]}

\* store_tf_metadata(tf_data) returns; the database may fail at one of the
\* statements of the atomic block
call_store_tf_metadata ==
  /\ args.fn = "store_tf_metadata"
  /\ Len(handled) < MaxMessages
  /\ \E tf_data \in args.deliveries,
        fault \in {"none", "update_or_create", "get_or_create", "save"} :
       LET after == store_tf_metadata(TfMetadata, client_runs, tf_data, fault)
       IN /\ TfMetadata' = after.TfMetadata
          /\ client_runs' = after.Run
          /\ handled' = Append(handled,
               [tf_data |-> tf_data, fault |-> fault, stored |-> after.stored,
                raised |-> FALSE])
  /\ UNCHANGED <<client, fnVars, loopVars, dbVars, cycleVars, storeVars, envVars, agentVars>>

\* --------------------------------------------- Spec: concurrent registration
\* A caller starts record_file for some path.
CallRecordFile(i, p) ==
  /\ pc[i] = "idle"
  /\ calls[i] < MaxCalls
  /\ pc' = [pc EXCEPT ![i] = "rf_check"]
  /\ rf' = [rf EXCEPT ![i] = [RfIdle EXCEPT !.file_path = p]]
  /\ res' = [res EXCEPT ![i] = ResIdle]
  /\ calls' = [calls EXCEPT ![i] = @ + 1]
  /\ UNCHANGED <<msgVars, fnVars, loopVars, dbVars, cycleVars, storeVars, envVars, kind, runRet, completed>>

\* record_file has returned or raised; the caller goes on.
RecordFileReturn(i) ==
  /\ pc[i] = "rf_ret"
  /\ pc' = [pc EXCEPT ![i] = "idle"]
  /\ rf' = [rf EXCEPT ![i] = RfIdle]
  /\ res' = [res EXCEPT ![i] = ResIdle]
  /\ UNCHANGED <<msgVars, fnVars, loopVars, dbVars, cycleVars, storeVars, envVars, kind, calls, runRet, completed>>

\* DatabaseManager.create_run: an operator registers a Run by hand
create_run(n) ==
  /\ ~RunNumberTaken(runs, n)
  /\ runs' = runs \cup {NewRun(runs, n, "manual")}
  /\ UNCHANGED <<msgVars, fnVars, loopVars, dbVars, cycleVars, stf_files, fastmon_files, dispatches, publishes, envVars, agentVars>>

RunNumbers == {extract_run_number(p, DefaultRunNumber) : p \in Paths}

\* which revision each instance runs; the instances are interchangeable, so
\* of two mirrored assignments one is kept
KindAssignments ==
  {k \in [Instances -> Kinds] : ~(k["a1"] = "rest" /\ k["a2"] = "orm")}

Init ==
  /\ runs = {}
  /\ stf_files = {}
  /\ fastmon_files = {}
  /\ dispatches = {}
  /\ publishes = {}
  /\ disk = [p \in Paths |-> [present |-> TRUE, size |-> StSize]]
  /\ envEvents = 0
  /\ kind \in KindAssignments
  /\ pc = [i \in Instances |-> "idle"]
  /\ rf = [i \in Instances |-> RfIdle]
  /\ res = [i \in Instances |-> ResIdle]
  /\ calls = [i \in Instances |-> 0]
  /\ runRet = [i \in Instances |-> <<>>]
  /\ completed = {}
  /\ cy = CyIdle
  /\ cycles = 0
  /\ has_filename = TRUE
  /\ selection_percent = 100
  /\ db = DbIdle
  /\ dbCalls = 0
  /\ running = [i \in Instances |-> FALSE]
  /\ interrupted = FALSE
  /\ stop_called = FALSE
  /\ TfMetadata = {}
  /\ client_runs = {}
  /\ handled = <<>>
  /\ client = ClientConstructed
  /\ config = None
  /\ args = None
  /\ result = None

Next ==
  \/ \E i \in Instances, p \in Paths : CallRecordFile(i, p)
  \/ \E i \in Instances : record_file(i)
  \/ \E i \in Instances : RecordFileReturn(i)
  \/ \E n \in RunNumbers : create_run(n)
  \/ \E p \in Paths : FileVanishes(p)

Spec == Init /\ [][Next]_vars

\* ------------------------------- SpecCycle: FastMonitorAgent's periodic loop
\* the selection fractions the model's configurations carry: main()'s 0.1
\* and 1.0 (no sampling)
SelectionPercents == {10, 100}

InitCycle ==
  /\ runs = {}
  /\ stf_files = {}
  /\ fastmon_files = {}
  /\ dispatches = {}
  /\ publishes = {}
  /\ \E S \in SUBSET Paths :
       disk = [p \in Paths |-> [present |-> p \in S, size |-> StSize]]
  /\ envEvents = 0
  /\ kind = [i \in Instances |-> "rest"]
  /\ pc = [i \in Instances |-> "idle"]
  /\ rf = [i \in Instances |-> RfIdle]
  /\ res = [i \in Instances |-> ResIdle]
  /\ calls = [i \in Instances |-> 0]
  /\ runRet = [i \in Instances |-> <<>>]
  /\ completed = {}
  /\ cy = CyIdle
  /\ cycles = 0
  /\ has_filename \in BOOLEAN
  /\ selection_percent \in SelectionPercents
  /\ db = DbIdle
  /\ dbCalls = 0
  /\ running = [i \in Instances |-> i = Agent]
  /\ interrupted = FALSE
  /\ stop_called = FALSE
  /\ TfMetadata = {}
  /\ client_runs = {}
  /\ handled = <<>>
  /\ client = ClientConstructed
  /\ config = None
  /\ args = None
  /\ result = None

NextCycle ==
  \/ StartCycle(Agent)
  \/ cy_scan(Agent)
  \/ cy_record(Agent)
  \/ record_file(Agent)
  \/ cy_recorded(Agent)
  \/ record_tf_file(Agent)
  \/ send_tf_file_notification(Agent)
  \/ cy_children_done(Agent)
  \/ cy_report(Agent)
  \/ \E p \in Paths : FileVanishes(p)
  \/ create_run(DefaultRunNumber)

SpecCycle == InitCycle /\ [][NextCycle]_vars

\* --------------------- SpecLoop: either agent's periodic loop, interruptible
InitLoop ==
  /\ runs = {}
  /\ stf_files = {}
  /\ fastmon_files = {}
  /\ dispatches = {}
  /\ publishes = {}
  /\ \E S \in {{}, Paths} :
       disk = [p \in Paths |-> [present |-> p \in S, size |-> StSize]]
  /\ envEvents = 0
  /\ kind = [i \in Instances |-> IF i = Agent THEN "rest" ELSE "orm"]
  /\ \E r \in {Agent, OrmAgent} : pc = [i \in Instances |-> IF i = r THEN "idle" ELSE "off"]
  /\ rf = [i \in Instances |-> RfIdle]
  /\ res = [i \in Instances |-> ResIdle]
  /\ calls = [i \in Instances |-> 0]
  /\ runRet = [i \in Instances |-> <<>>]
  /\ completed = {}
  /\ cy = CyIdle
  /\ cycles = 0
  /\ has_filename \in BOOLEAN
  /\ selection_percent \in SelectionPercents
  /\ db = DbIdle
  /\ dbCalls = 0
  /\ running = [i \in Instances |-> i = Agent]
  /\ interrupted = FALSE
  /\ stop_called = FALSE
  /\ TfMetadata = {}
  /\ client_runs = {}
  /\ handled = <<>>
  /\ client = ClientConstructed
  /\ config = None
  /\ args = None
  /\ result = None

NextLoop ==
  \/ StartCycle(Agent)
  \/ cy_scan(Agent)
  \/ cy_record(Agent)
  \/ cy_recorded(Agent)
  \/ record_tf_file(Agent)
  \/ send_tf_file_notification(Agent)
  \/ cy_children_done(Agent)
  \/ cy_report(Agent)
  \/ fm_start(OrmAgent)
  \/ fm_loop(OrmAgent)
  \/ fm_scan(OrmAgent)
  \/ fm_record(OrmAgent)
  \/ fm_recorded(OrmAgent)
  \/ fm_files_done(OrmAgent)
  \/ fm_sleep(OrmAgent)
  \/ \E i \in Instances : record_file(i)
  \/ \E i \in Instances : loop_exit(i)
  \/ \E i \in Instances : Interrupt(i)
  \/ \E p \in Paths : FileVanishes(p)
  \/ \E p \in Paths : FileRewritten(p)

\* time.sleep returns after check_interval and the loop statement is
\* evaluated again: the turn of the loop is not postponed for ever
LoopFairness ==
  /\ WF_vars(StartCycle(Agent))
  /\ WF_vars(fm_sleep(OrmAgent))
  /\ WF_vars(fm_loop(OrmAgent))

SpecLoop == InitLoop /\ [][NextLoop]_vars /\ LoopFairness

\* ------------- SpecConstruct: an agent is constructed, then its loop starts
InitConstruct ==
  /\ runs = {}
  /\ stf_files = {}
  /\ fastmon_files = {}
  /\ dispatches = {}
  /\ publishes = {}
  /\ disk = [p \in Paths |-> [present |-> TRUE, size |-> StSize]]
  /\ envEvents = 0
  /\ kind = [i \in Instances |-> IF i = Agent THEN "rest" ELSE "orm"]
  /\ \E r \in {Agent, OrmAgent} : pc = [i \in Instances |-> IF i = r THEN "new" ELSE "off"]
  /\ rf = [i \in Instances |-> RfIdle]
  /\ res = [i \in Instances |-> ResIdle]
  /\ calls = [i \in Instances |-> 0]
  /\ runRet = [i \in Instances |-> <<>>]
  /\ completed = {}
  /\ cy = CyIdle
  /\ cycles = 0
  /\ has_filename = TRUE
  /\ selection_percent = None
  /\ db = DbIdle
  /\ dbCalls = 0
  /\ running = [i \in Instances |-> FALSE]
  /\ interrupted = FALSE
  /\ stop_called = FALSE
  /\ TfMetadata = {}
  /\ client_runs = {}
  /\ handled = <<>>
  /\ client = ClientConstructed
  /\ config \in Configs
  /\ args = None
  /\ result = None

NextConstruct ==
  \/ \E i \in Instances : Construct(i)
  \/ StartCycle(Agent)
  \/ fm_start(OrmAgent)
  \/ fm_loop(OrmAgent)
  \/ stop(OrmAgent)
  \/ \E outcome \in {"connect_fails", "subscribe_fails", "ok"} : start_monitoring(outcome)
  \/ \E by_interrupt \in BOOLEAN : monitoring_ends(by_interrupt)
  \/ call_stop_monitoring

SpecConstruct == InitConstruct /\ [][NextConstruct]_vars

\* the state of everything but the call, where only a function is called
NoAgents ==
  /\ runs = {}
  /\ stf_files = {}
  /\ fastmon_files = {}
  /\ dispatches = {}
  /\ publishes = {}
  /\ disk = [p \in Paths |-> [present |-> TRUE, size |-> StSize]]
  /\ envEvents = 0
  /\ kind = [i \in Instances |-> IF i = Agent THEN "rest" ELSE "orm"]
  /\ pc = [i \in Instances |-> "off"]
  /\ rf = [i \in Instances |-> RfIdle]
  /\ res = [i \in Instances |-> ResIdle]
  /\ calls = [i \in Instances |-> 0]
  /\ runRet = [i \in Instances |-> <<>>]
  /\ completed = {}
  /\ cy = CyIdle
  /\ cycles = 0
  /\ has_filename = TRUE
  /\ selection_percent = None
  /\ db = DbIdle
  /\ dbCalls = 0
  /\ running = [i \in Instances |-> FALSE]
  /\ interrupted = FALSE
  /\ stop_called = FALSE
  /\ TfMetadata = {}
  /\ client_runs = {}
  /\ handled = <<>>
  /\ client = ClientConstructed

\* --------------------------- SpecCall: one call of a fastmon_utils function
InitCall ==
  /\ NoAgents
  /\ \/ config = None /\ args \in SelectFilesArgs
     \/ config \in TfConfigs /\ args \in SimulateTfArgs
     \/ config = None /\ args \in RunNumberArgs
     \/ config = None /\ args \in FindRecentArgs
     \/ config = None /\ args \in ConstructUrlArgs
     \/ config = None /\ args \in StoreTfMetadataArgs
  /\ result = None

NextCall ==
  \/ call_select_files
  \/ call_simulate_tf_subsamples
  \/ call_extract_run_number
  \/ call_find_recent_files
  \/ call_construct_file_url
  \/ call_store_tf_metadata

SpecCall == InitCall /\ [][NextCall]_vars

\* ---------------- SpecMsg: the scan cycle, with frames arriving at both ends
InitMsg ==
  /\ runs = {}
  /\ stf_files = {}
  /\ fastmon_files = {}
  /\ dispatches = {}
  /\ publishes = {}
  /\ disk = [p \in Paths |-> [present |-> PathName(p) = Name1, size |-> StSize]]
  /\ envEvents = 0
  /\ kind = [i \in Instances |-> "rest"]
  /\ pc = [i \in Instances |-> "idle"]
  /\ rf = [i \in Instances |-> RfIdle]
  /\ res = [i \in Instances |-> ResIdle]
  /\ calls = [i \in Instances |-> 0]
  /\ runRet = [i \in Instances |-> <<>>]
  /\ completed = {}
  /\ cy = CyIdle
  /\ cycles = 0
  /\ has_filename = TRUE
  /\ selection_percent = 100
  /\ db = DbIdle
  /\ dbCalls = 0
  /\ running = [i \in Instances |-> i = Agent]
  /\ interrupted = FALSE
  /\ stop_called = FALSE
  /\ TfMetadata = {}
  /\ client_runs = {}
  /\ handled = <<>>
  /\ client = ClientConstructed
  /\ config = None
  /\ args = None
  /\ result = None

NextMsg ==
  \/ StartCycle(Agent)
  \/ cy_scan(Agent)
  \/ cy_record(Agent)
  \/ record_file(Agent)
  \/ cy_recorded(Agent)
  \/ record_tf_file(Agent)
  \/ send_tf_file_notification(Agent)
  \/ cy_children_done(Agent)
  \/ cy_report(Agent)
  \/ on_message(Agent)
  \/ listener_on_message

SpecMsg == InitMsg /\ [][NextMsg]_vars

\* ------------------------------------- SpecDb: one client of DatabaseManager
InitDb ==
  /\ runs = {}
  /\ stf_files = {}
  /\ fastmon_files = {}
  /\ dispatches = {}
  /\ publishes = {}
  /\ disk = [p \in Paths |-> [present |-> TRUE, size |-> StSize]]
  /\ envEvents = 0
  /\ kind = [i \in Instances |-> "orm"]
  /\ pc = [i \in Instances |-> "idle"]
  /\ rf = [i \in Instances |-> RfIdle]
  /\ res = [i \in Instances |-> ResIdle]
  /\ calls = [i \in Instances |-> 0]
  /\ runRet = [i \in Instances |-> <<>>]
  /\ completed = {}
  /\ cy = CyIdle
  /\ cycles = 0
  /\ has_filename = TRUE
  /\ selection_percent = 100
  /\ db = DbIdle
  /\ dbCalls = 0
  /\ running = [i \in Instances |-> FALSE]
  /\ interrupted = FALSE
  /\ stop_called = FALSE
  /\ TfMetadata = {}
  /\ client_runs = {}
  /\ handled = <<>>
  /\ client = ClientConstructed
  /\ config = None
  /\ args = None
  /\ result = None

NextDb ==
  \/ \E m \in Managers, run_id \in RunIds, url \in Urls : CallInsertStfFile(m, run_id, url)
  \/ dj_insert_stf_file
  \/ get_session_open
  \/ sa_insert_stf_file
  \/ get_session_commit
  \/ get_session_except
  \/ get_session_finally
  \/ DbReturn
  \/ \E n \in RunNumbers \cup {DefaultRunNumber} : create_run(n)

SpecDb == InitDb /\ [][NextDb]_vars


\* ------------------------------------------------------------------ claims

\* C1: after any sequence of record_file calls the catalog holds at most one
\* StfFile per file_url, and exactly one for every url whose registration
\* completed.
C1_OneStfFilePerUrl ==
  /\ \A f, g \in stf_files : f.file_url = g.file_url => f = g
  /\ \A u \in completed : Cardinality(StfFilesByUrl(stf_files, u)) = 1

\* one orm instance, alone, has made all its calls and the last one found
\* the url registered by an earlier one
C1_Witness ==
  \E i \in Instances :
    /\ kind[i] = "orm"
    /\ \A j \in Instances \ {i} : calls[j] = 0
    /\ calls[i] = MaxCalls
    /\ pc[i] = "rf_ret"
    /\ res[i].outcome = "already"
    /\ rf[i].file_url \in completed

\* C2: an instance that lost the insert race for a url (it passed the
\* existence check, then its insert met the uniqueness constraint) ends as
\* "already registered": exactly one StfFile for the url, no exception, no
\* error outcome.
C2_LoserEndsAlreadyRegistered ==
  \A i \in Instances :
    (pc[i] = "rf_ret" /\ "file" \in res[i].conflicts) =>
      /\ Cardinality(StfFilesByUrl(stf_files, rf[i].file_url)) = 1
      /\ res[i].outcome = "already"

\* C3: a get_or_create_run call that lost the creation race for a run_number
\* to another get_or_create_run call returns the winner's Run, of which there
\* is exactly one; it does not raise.
C3_RunRaceReturnsWinner ==
  \A i \in Instances :
    ( /\ "run" \in res[i].conflicts
      /\ \E r \in RunsByNumber(runs, rf[i].run_number) : r.run_conditions = "auto_created" ) =>
      /\ Cardinality(RunsByNumber(runs, rf[i].run_number)) = 1
      /\ rf[i].run \in RunsByNumber(runs, rf[i].run_number)
      /\ res[i].outcome # "raised"

\* C4: two get_or_create_run calls in sequence for one run_number return Runs
\* with the same run_id and that run_number, exactly one Run with it is
\* stored, and the later call leaves the stored run_conditions as they were.
C4_GetOrCreateRunTwice ==
  \A i \in Instances : \A j, k \in 1..Len(runRet[i]) :
    (j < k /\ runRet[i][j].asked = runRet[i][k].asked) =>
      /\ runRet[i][j].run.run_id = runRet[i][k].run.run_id
      /\ runRet[i][j].run.run_number = runRet[i][j].asked
      /\ runRet[i][k].run.run_number = runRet[i][k].asked
      /\ runRet[i][k].run.run_conditions = runRet[i][j].run.run_conditions
      /\ RunsByNumber(runs, runRet[i][k].asked) = {runRet[i][j].run}

\* an instance got a Run created by hand back from two calls in a row
C4_Witness ==
  \E i \in Instances :
    /\ Len(runRet[i]) = 2
    /\ runRet[i][1].asked = runRet[i][2].asked
    /\ runRet[i][1].run.run_conditions = "manual"

\* C5 as stated: a record_file call that finds the url registered returns the
\* stored record (for both revisions), does no Run lookup and no insert, and
\* one StfFile exists for the url.
C5_SecondCallReturnsStoredRecord ==
  \A i \in Instances :
    (pc[i] = "rf_ret" /\ res[i].outcome = "already") =>
      /\ Cardinality(StfFilesByUrl(stf_files, rf[i].file_url)) = 1
      /\ res[i].ops = {"file_get"}
      /\ res[i].retval \in StfFilesByUrl(stf_files, rf[i].file_url)

\* C5 amended: as above, but only the rest revision returns the stored
\* record; the orm revision's record_file returns None.
C5_SecondCallIsNoOp ==
  \A i \in Instances :
    (pc[i] = "rf_ret" /\ res[i].outcome = "already") =>
      /\ Cardinality(StfFilesByUrl(stf_files, rf[i].file_url)) = 1
      /\ res[i].ops = {"file_get"}
      /\ kind[i] = "rest" => res[i].retval \in StfFilesByUrl(stf_files, rf[i].file_url)
      /\ kind[i] = "orm" => res[i].retval = None

\* a rest instance, alone, records a path and is handed the stored record
\* when it records the path again
C5_Witness ==
  \E i \in Instances :
    /\ kind[i] = "rest"
    /\ \A j \in Instances \ {i} : calls[j] = 0
    /\ calls[i] = 2
    /\ pc[i] = "rf_ret"
    /\ res[i].outcome = "already"
    /\ res[i].retval \in stf_files
    /\ Cardinality(stf_files) = 1

\* C6 (SpecDb): insert_stf_file called with a file_url that is already stored
\* treats the uniqueness conflict as "already exists": it does not raise, it
\* returns the file_id of the stored record, and the store is as it was.
C6_InsertConflictReturnsExisting ==
  (db.pc = "done" /\ db.conflict) =>
    /\ db.raised = "none"
    /\ \E f \in StfFilesByUrl(db.stored, db.file_url) : db.ret = f.file_id
    /\ stf_files = db.stored

\* every fault so far was a failed publish
OnlyPublishFaults == envEvents = Cardinality({e \in publishes : ~e.ok})

\* C7 (SpecCycle): from an empty store and one discoverable file, one full
\* cycle (in which nothing but publishing may have failed) leaves exactly one
\* StfFile, TfFilesPerStf TF files and TfFilesPerStf dispatch rows, one per
\* publish attempt.
C7_OneCycleOneFile ==
  ( /\ pc[Agent] = "cy_done"
    /\ cycles = 1
    /\ cy.found = 1
    /\ cy.result = "ok"
    /\ OnlyPublishFaults ) =>
    /\ Cardinality(stf_files) = 1
    /\ Cardinality(fastmon_files) = TfFilesPerStf
    /\ Cardinality(publishes) = TfFilesPerStf
    /\ Cardinality(dispatches) = TfFilesPerStf

\* the TF files stored for one parent with one sequence number
ChildrenWithSeq(parent, n) ==
  {c \in fastmon_files : c.stf_file = parent.file_id /\ c.sequence_number = n}

\* C8 (SpecCycle): after any number of fault-free cycles over unchanged files,
\* the sequence numbers of every StfFile's TF files are exactly
\* TfSequenceStart .. TfSequenceStart + TfFilesPerStf - 1, each once.
C8_DenseSequenceNumbers ==
  ( /\ pc[Agent] = "cy_done"
    /\ cy.result = "ok"
    /\ envEvents = 0 ) =>
    \A f \in stf_files :
      /\ \A n \in TfSequenceStart..(TfSequenceStart + TfFilesPerStf - 1) :
           Cardinality(ChildrenWithSeq(f, n)) = 1
      /\ \A c \in fastmon_files :
           c.stf_file = f.file_id =>
             c.sequence_number \in TfSequenceStart..(TfSequenceStart + TfFilesPerStf - 1)

\* C9 (SpecCycle): when the registration of one selected file failed, every
\* other file selected in the cycle is registered and had its TF files
\* derived by the end of the cycle.
C9_FileFailureSparesOthers ==
  (pc[Agent] = "cy_done" /\ cy.failed # {}) =>
    \A n \in 1..Len(cy.recent_files) :
      LET p == cy.recent_files[n] IN
      p \notin cy.failed =>
        /\ FileUrlTaken(stf_files, construct_file_url("rest", p, BaseUrl))
        /\ p \in cy.derived

\* the entries tf_files_registered got for the current parent's subsamples
CurrentChildren ==
  LET n == Len(cy.tf_subsamples)
      m == Len(cy.tf_files_registered)
  IN SubSeq(cy.tf_files_registered, m - n + 1, m)

PublishFailedFor(tf_file) ==
  \E e \in publishes : ~e.ok /\ e.message.tf_file_id = tf_file.tf_file_id

\* C10 (SpecCycle): once all subsamples of a parent went through, if the
\* publish for one of them failed (and nothing else did), that child is in the
\* cycle's result all the same (the failure did not raise), and every sibling
\* was recorded, had its notification published and has a dispatch row.
C10_PublishFailureSparesSiblings ==
  ( /\ pc[Agent] = "cy_tf"
    /\ cy.j > Len(cy.tf_subsamples)
    /\ OnlyPublishFaults
    /\ \E a \in 1..Len(CurrentChildren) :
         CurrentChildren[a] # None /\ PublishFailedFor(CurrentChildren[a]) ) =>
    /\ Len(CurrentChildren) = TfFilesPerStf
    /\ \A b \in 1..Len(CurrentChildren) :
         /\ CurrentChildren[b] # None
         /\ CurrentChildren[b] \in fastmon_files
         /\ \E e \in publishes : e.message.tf_file_id = CurrentChildren[b].tf_file_id
         /\ \E d \in dispatches : d.record_id = CurrentChildren[b].tf_file_id

\* C11 (SpecCycle): every failed publish attempt has a dispatch row with
\* is_successful = FALSE, a non-empty error message and the payload that was
\* sent as its message_content.
C11_FailedPublishHasDispatch ==
  \A e \in publishes :
    ~e.ok =>
      \E d \in dispatches :
        /\ d.message_content = e.message
        /\ d.is_successful = FALSE
        /\ d.error_message # <<>>

\* the loop is between two cycles: the cycle has returned and the sleep is on
BetweenCycles ==
  \/ pc[Agent] = "cy_done"
  \/ pc[OrmAgent] = "fm_sleep"

\* a cycle has just begun
CycleBegun == pc[Agent] = "cy_scan" \/ pc[OrmAgent] = "fm_scan"

\* C12 (SpecLoop): after a cycle in which registering a file, recording a
\* child or publishing a notification failed, the loop goes on to its next
\* cycle (unless an interrupt arrives first); MaxCycles bounds the run.
C12_LoopSurvivesErrors ==
  (BetweenCycles /\ CycleHadError /\ cycles < MaxCycles)
    ~> (interrupted \/ (CycleBegun /\ cy.prev_error))

C12_Witness == CycleBegun /\ cy.prev_error /\ ~interrupted

\* C13 (SpecLoop): once the interrupted loop has returned, the agent's
\* running flag is False.
C13_StoppedMeansNotRunning ==
  \A i \in Instances : pc[i] = "stopped" => ~running[i]

\* what the claim calls an acceptable configuration
AllKeysAndFractionInRange ==
  /\ Range(RequiredKeys) \subseteq config.keys
  /\ config.selection_fraction \in 0..100

\* C14 (SpecConstruct): a configuration lacking a required key or with a
\* fraction outside [0,1] makes construction fail and no cycle ever runs with
\* it; a configuration with all keys and a fraction in [0,1] is accepted.
C14_ConfigValidatedAtConstruction ==
  /\ \A i \in Instances : pc[i] = "failed" => ~AllKeysAndFractionInRange
  /\ \A i \in Instances : pc[i] \notin {"new", "off", "failed"} => AllKeysAndFractionInRange
  /\ cycles > 0 => AllKeysAndFractionInRange

C14_Witness ==
  /\ pc[OrmAgent] = "failed"
  /\ Range(RequiredKeys) \subseteq config.keys
  /\ config.selection_fraction = 101
  /\ result.raised = "ValueError"

\* floor(n * f) for a fraction given in percent
FloorOfProduct(n, percent) ==
  CHOOSE m \in 0..n : m * 100 <= n * percent /\ n * percent < (m + 1) * 100

\* C15 (SpecCall): for N >= 1 candidates and f in [0,1] select_files
\* returns max(1, floor(N*f)) paths taken from distinct positions of the
\* input; for an empty list it returns the empty list.
C15_SelectionCountAndDistinctPositions ==
  (args.fn = "select_files" /\ result # None) =>
    LET files == args.files
        selected == result.value
        expected == IF FloorOfProduct(Len(files), args.selection_fraction) < 1
                    THEN 1 ELSE FloorOfProduct(Len(files), args.selection_fraction)
    IN IF Len(files) = 0
       THEN selected = <<>>
       ELSE /\ Len(selected) = expected
            /\ Len(selected) <= Len(files)
            /\ \E g \in [1..Len(selected) -> 1..Len(files)] :
                 /\ \A a, b \in 1..Len(selected) : g[a] = g[b] => a = b
                 /\ \A a \in 1..Len(selected) : selected[a] = files[g[a]]

C15_Witness ==
  /\ args.fn = "select_files"
  /\ result # None
  /\ Len(args.files) = 3
  /\ args.selection_fraction = 75
  /\ Len(result.value) = 2

\* a call of simulate_tf_subsamples on a FileRecord has returned
SimulateReturned ==
  args.fn = "simulate_tf_subsamples" /\ result # None /\ args.stf_file # None

\* C16 (SpecCall): simulate_tf_subsamples returns tf_files_per_stf children
\* (7 when unset), the i-th (from 0) with sequence_number tf_sequence_start + i
\* (start 1 when unset) and stf_parent the parent's file_id.
C16_CountSequenceAndParent ==
  SimulateReturned =>
    LET count == IF "tf_files_per_stf" \in DOMAIN config
                 THEN config["tf_files_per_stf"] ELSE 7
        start == IF "tf_sequence_start" \in DOMAIN config
                 THEN config["tf_sequence_start"] ELSE 1
    IN /\ Len(result.value) = count
       /\ \A n \in 1..Len(result.value) :
            /\ result.value[n].sequence_number = start + (n - 1)
            /\ result.value[n].stf_parent = args.stf_file.file_id

C16_Witness ==
  /\ SimulateReturned
  /\ DOMAIN config = {}
  /\ Len(result.value) = 7
  /\ result.value[7].sequence_number = 7
  /\ result.value[7].stf_parent = 2

\* S * f * j of child n, in hundred-thousandths (f in percent, j in thousandths)
SizeProduct(n) ==
  args.stf_file.file_size_bytes
    * (IF "tf_size_fraction" \in DOMAIN config THEN config["tf_size_fraction"] ELSE 15)
    * result.jitter[n]

\* round(x / 100000) to the nearest integer, halves to the even one
RoundToNearest(x) ==
  LET q == x \div 100000
      r == x % 100000
  IN IF 2 * r > 100000 \/ (2 * r = 100000 /\ q % 2 = 1) THEN q + 1 ELSE q

\* C17 as stated (SpecCall): each child's size_bytes equals round(S*f*j).
C17_SizeIsRounded ==
  SimulateReturned =>
    \A n \in 1..Len(result.value) :
      result.value[n].file_size_bytes = RoundToNearest(SizeProduct(n))

\* C17 as amended (SpecCall): each child's size_bytes is S*f*j with the
\* fraction cut off, so it is no more than 1.2*S*f and more than 0.8*S*f - 1.
C17_SizeIsTruncated ==
  SimulateReturned =>
    \A n \in 1..Len(result.value) :
      LET size == result.value[n].file_size_bytes IN
      /\ size * 100000 <= SizeProduct(n)
      /\ SizeProduct(n) < (size + 1) * 100000
      /\ size * 100000 <= (SizeProduct(n) \div result.jitter[n]) * 1200
      /\ (size + 1) * 100000 > (SizeProduct(n) \div result.jitter[n]) * 800

C17_Witness ==
  /\ SimulateReturned
  /\ args.stf_file.file_size_bytes = 7
  /\ "tf_size_fraction" \notin DOMAIN config
  /\ Len(result.value) > 0
  /\ result.jitter[1] = 800
  /\ result.value[1].file_size_bytes = 0

\* the children's filenames of a returned list, in order
TfFilenames(r) == [n \in 1..Len(r.value) |-> r.value[n].tf_filename]

\* C18 (SpecCall): deriving the children of the same parent again, whatever
\* is drawn, yields the same filenames, and children of one parent with
\* different sequence numbers have different filenames.
C18_FilenamesDeterministicAndDistinct ==
  [][(SimulateReturned /\ result' # None) =>
       /\ TfFilenames(result') = TfFilenames(result)
       /\ \A a, b \in 1..Len(result'.value) :
            result'.value[a].sequence_number # result'.value[b].sequence_number
              => result'.value[a].tf_filename # result'.value[b].tf_filename]_vars

C18_Witness ==
  /\ SimulateReturned
  /\ Len(result.value) = 2
  /\ result.value[1].tf_filename = Stem(Name2) \o <<"_", "t", "f", "_", "9", "9", "9", ".", "t", "f">>
  /\ result.value[2].tf_filename = Stem(Name2) \o <<"_", "t", "f", "_", "1", "0", "0", "0", ".", "t", "f">>

\* the name handed to extract_run_number: the path without its separator
GivenName == Tail(args.file_path)

\* positions of GivenName where the letters lit stand, in either case,
\* right before a digit
Occurrences(lit) ==
  {i \in 1..Len(GivenName) :
     /\ i + Len(lit) <= Len(GivenName)
     /\ \A k \in 1..Len(lit) :
          GivenName[i + k - 1] \in
            {lit[k], CASE lit[k] = "r" -> "R" [] lit[k] = "u" -> "U"
                       [] lit[k] = "n" -> "N" [] OTHER -> lit[k]}
     /\ GivenName[i + Len(lit)] \in Digits}

\* the number written by the digits that follow the first occurrence of lit
DigitsAfterFirst(lit) ==
  LET j == SetMin(Occurrences(lit)) + Len(lit)
      e == SetMax({m \in j..Len(GivenName) : \A k \in j..m : GivenName[k] \in Digits})
  IN DigitsToInt(GivenName, j, e)

\* C19 (SpecCall): extract_run_number returns the digits after run_, else
\* after run, else after r (letters in either case, anywhere in the name),
\* and the configured default when none of the three occurs.
C19_RunNumberByPatternPriority ==
  (args.fn = "extract_run_number" /\ result # None) =>
    result.value =
      IF Occurrences(<<"r", "u", "n", "_">>) # {} THEN DigitsAfterFirst(<<"r", "u", "n", "_">>)
      ELSE IF Occurrences(<<"r", "u", "n">>) # {} THEN DigitsAfterFirst(<<"r", "u", "n">>)
      ELSE IF Occurrences(<<"r">>) # {} THEN DigitsAfterFirst(<<"r">>)
      ELSE args.default_run_number

\* "r1Run_02": the bare letter comes first, the qualifier form wins
C19_Witness ==
  /\ args.fn = "extract_run_number"
  /\ result # None
  /\ GivenName = <<"r", "1", "R", "u", "n", "_", "0", "2">>
  /\ args.default_run_number = 77
  /\ result.value = 2

\* the n-th watch directory was there and its scan raised nothing
ScannedWhole(n) ==
  args.fs[args.watch_directories[n]].exists /\ n \notin result.errors

\* the age cutoff as the function called applies it
PassesCutoff(age) ==
  IF args.variant = "utils"
  THEN args.lookback_time \in {<<>>, <<0>>} \/ age <= args.lookback_time[1]
  ELSE age < args.lookback_time[1]

FilesInsideWindow ==
  UNION {
    LET d == args.fs[args.watch_directories[n]] IN
    {<<args.watch_directories[n], d.entries[e].name>> :
       e \in {k \in 1..Len(d.entries) :
                /\ d.exists
                /\ d.entries[k].is_file
                /\ \/ args.lookback_time = <<>>
                   \/ d.entries[k].age <= args.lookback_time[1]}} :
    n \in 1..Len(args.watch_directories)}

\* C21 (SpecCall): a scan in which no directory fails returns a path if and
\* only if it is a regular file of an existing watch directory created inside
\* the lookback window; with lookback_time None there is no age filter.
C21_ReturnedIffInsideWindow ==
  (args.fn = "find_recent_files" /\ result # None /\ result.errors = {}) =>
    /\ result.raised = "none"
    /\ {result.value[r] : r \in 1..Len(result.value)} = FilesInsideWindow

\* C22 (Spec): with checksums enabled and the file unreadable, the checksum
\* step hands record_file the empty string and record_file goes on to the
\* insertion; the row it then inserts carries that empty checksum and status
\* REGISTERED.
C22_ChecksumFailureStillRecords ==
  [][\A i \in Instances :
       /\ ( /\ pc[i] = "rf_checksum"
            /\ pc'[i] # "rf_checksum"
            /\ Config(kind[i]).calculate_checksum
            /\ ~disk[rf[i].file_path].present )
          => ( /\ pc'[i] = "rf_create"
               /\ rf'[i].checksum = <<>>
               /\ res'[i].outcome = "none" )
       /\ ( /\ pc[i] = "rf_create"
            /\ rf[i].checksum = <<>>
            /\ res'[i].outcome = "recorded" )
          => \E row \in stf_files' \ stf_files :
               /\ row.file_url = rf[i].file_url
               /\ row.checksum = <<>>
               /\ row.status \in {"REGISTERED", "registered"}]_vars

C22_Witness ==
  \E i \in Instances :
    /\ Config(kind[i]).calculate_checksum
    /\ res[i].outcome = "recorded"
    /\ "checksum" \in res[i].ops
    /\ rf[i].checksum = <<>>
    /\ \E row \in stf_files : row.file_url = rf[i].file_url /\ row.checksum = <<>>

\* C23 (SpecLoop): in every reachable state every FileRecord and every
\* ChildRecord the pipeline has stored has status REGISTERED, whatever
\* re-scans, derivations and notifications (failed or not) came after it.
C23_AllRecordsRegistered ==
  /\ \A f \in stf_files : f.status \in {"REGISTERED", "registered"}
  /\ \A t \in fastmon_files : t.status = "REGISTERED"

\* a second cycle is through, with children stored and a publish failed
C23_Witness ==
  /\ cycles = 2
  /\ pc[Agent] = "cy_done"
  /\ stf_files # {}
  /\ fastmon_files # {}
  /\ \E e \in publishes : ~e.ok

JustHandled == handled'[Len(handled')]
Malformed(body) == ~body.json \/ "file_id" \notin DOMAIN body.obj

\* C25 (SpecMsg): a frame that is not JSON, or is JSON without 'file_id',
\* leaves the listener's on_message without an exception and with both of
\* the listener's tables as they were; the agent's on_message likewise
\* returns from a frame that is not JSON with the catalog untouched; and a
\* frame with 'file_id' and a run number that the listener is handed after
\* it dropped one is stored.
C25_MalformedFrameDropped ==
  [][Len(handled') = Len(handled) + 1 =>
       /\ ~JustHandled.raised
       /\ (JustHandled.handler = "client" /\ Malformed(JustHandled.body)) =>
            /\ JustHandled.outcome = "dropped"
            /\ UNCHANGED <<TfMetadata, client_runs>>
       /\ (JustHandled.handler = "agent" /\ ~JustHandled.body.json) =>
            /\ JustHandled.outcome = "error"
            /\ UNCHANGED storeVars
       /\ ( /\ JustHandled.handler = "client"
            /\ JustHandled.body.what = "file_id"
            /\ \E n \in 1..Len(handled) : handled[n].outcome \in {"dropped", "error"} ) =>
            /\ JustHandled.outcome = "stored"
            /\ \E row \in TfMetadata' : row.file_id = JustHandled.body.obj.file_id]_vars

\* the listener dropped a frame that is not JSON and stored the next one
C25_Witness ==
  /\ Len(handled) = 2
  /\ handled[1].handler = "client" /\ ~handled[1].body.json /\ handled[1].outcome = "dropped"
  /\ handled[2].handler = "client" /\ handled[2].outcome = "stored"
  /\ TfMetadata # {}

\* C26 (SpecMsg): a frame that decodes and carries the minimum payload fields
\* is persisted by the listener, with one row for that TF file afterwards.
C26_MinimumPayloadPersisted ==
  [][( /\ Len(handled') = Len(handled) + 1
       /\ JustHandled.handler = "client"
       /\ JustHandled.body.json
       /\ {"tf_file_id", "tf_filename", "file_size_bytes", "stf_filename", "run_number",
           "status", "timestamp", "agent_name"} \subseteq DOMAIN JustHandled.body.obj )
       => /\ JustHandled.outcome = "stored"
          /\ TfMetadata' # TfMetadata]_vars

\* C27 (SpecLoop): no step of either agent's loop removes or rewrites a row
\* of runs, and every STF row keeps its id, url, run, size and checksum in
\* every later state, also when the file is scanned again after the DAQ
\* wrote it anew.
C27_CatalogOnlyGrows ==
  [][/\ runs \subseteq runs'
     /\ \A f \in stf_files :
          \E g \in stf_files' :
            /\ g.file_id = f.file_id
            /\ g.file_url = f.file_url
            /\ g.run = f.run
            /\ g.file_size_bytes = f.file_size_bytes
            /\ g.checksum = f.checksum]_vars

\* a file was registered, written anew, and found again by a later scan
C27_Witness ==
  \E i \in Instances, p \in Paths :
    /\ cycles = 2
    /\ pc[i] = "rf_ret"
    /\ res[i].outcome = "already"
    /\ rf[i].file_path = p
    /\ \E f \in stf_files :
         f.file_url = rf[i].file_url /\ f.file_size_bytes # disk[p].size

\* the calls of construct_file_url made so far
UrlCalls == IF args.fn = "construct_file_url" /\ result # None THEN result.calls ELSE <<>>
StartsWith(s, prefix) == Len(s) >= Len(prefix) /\ SubSeq(s, 1, Len(prefix)) = prefix
EndsWith(s, suffix) ==
  Len(s) >= Len(suffix) /\ SubSeq(s, Len(s) - Len(suffix) + 1, Len(s)) = suffix

\* C28 (SpecCall): for a base URL b that ends in no slash, the calls of
\* construct_file_url with b, with b + '/' and with b followed by any number
\* of slashes return one and the same URL, which starts with b and ends with
\* the absolute path of the file.
C28_UrlIgnoresTrailingSlashes ==
  \A c, d \in 1..Len(UrlCalls) :
    /\ UrlCalls[c].value = UrlCalls[d].value
    /\ StartsWith(UrlCalls[c].value, args.base_url)
    /\ EndsWith(UrlCalls[c].value, args.file_path)

\* C29 (SpecLoop): when a scan cycle that found files is over, registration
\* was attempted for as many files as the cycle selected: for every one of
\* them record_file was called, whether it recorded the file, found it
\* recorded, or failed.
C29_EverySelectedFileAttempted ==
  /\ (pc[Agent] = "cy_done" /\ cy.result \in {"ok", "error"}) =>
       Cardinality(cy.derived \cup cy.failed) = Len(cy.recent_files)
  /\ (pc[OrmAgent] = "fm_sleep" /\ cy.result = "ok") =>
       cy.k - 1 = Len(cy.recent_files)

\* the step is a record_tf_file call whose POST failed
RecordTfFileFailed ==
  /\ pc[Agent] = "cy_tf"
  /\ cy.j <= Len(cy.tf_subsamples)
  /\ pc'[Agent] # "cy_notify"
  /\ envEvents' = envEvents + 1

\* C30 (SpecCycle): (1) a notification that is published names a TF file
\* that is in the store already; (2) a record_tf_file call that fails hands
\* back None without raising: the cycle stays in its loop over the
\* subsamples, with None as that child's entry and no publish attempt made;
\* (3) when the loop over a parent's subsamples is through, it has an entry
\* for each of the TfFilesPerStf subsamples, and every child that was
\* recorded is in the store and had its notification published.
C30_NotifiedOnlyAfterStored ==
  [][/\ \A e \in publishes' \ publishes :
          \E t \in fastmon_files : t.tf_file_id = e.message.tf_file_id
     /\ RecordTfFileFailed =>
          /\ pc'[Agent] = "cy_tf"
          /\ cy'.result = cy.result
          /\ cy'.j = cy.j + 1
          /\ cy'.tf_files_registered = Append(cy.tf_files_registered, None)
          /\ UNCHANGED <<fastmon_files, publishes>>
     /\ (pc[Agent] = "cy_tf" /\ cy.j > Len(cy.tf_subsamples)) =>
          /\ Len(CurrentChildren) = TfFilesPerStf
          /\ \A b \in 1..Len(CurrentChildren) :
               CurrentChildren[b] # None =>
                 /\ CurrentChildren[b] \in fastmon_files
                 /\ \E e \in publishes :
                      e.message.tf_file_id = CurrentChildren[b].tf_file_id]_vars

\* a parent's loop is through: one child failed to record and has no
\* notification, a later sibling was recorded and notified
C30_Witness ==
  /\ pc[Agent] = "cy_tf"
  /\ cy.j > Len(cy.tf_subsamples)
  /\ \E a, b \in 1..Len(CurrentChildren) :
       /\ a < b
       /\ CurrentChildren[a] = None
       /\ CurrentChildren[b] # None
       /\ CurrentChildren[b] \in fastmon_files
       /\ \E e \in publishes : e.message.tf_file_id = CurrentChildren[b].tf_file_id
  /\ Cardinality(publishes) = 1

\* the store_tf_metadata calls made so far
StoreCalls == IF args.fn = "store_tf_metadata" THEN handled ELSE <<>>

\* C31 (SpecCall): whatever messages were delivered, in whatever order and
\* however often, the listener's table holds at most one row per file_id;
\* and a message delivered again right after it was stored leaves the rows
\* and the runs' counters as they were.
C31_StoreIsIdempotent ==
  [][args.fn = "store_tf_metadata" =>
       /\ \A r, q \in TfMetadata' : r.file_id = q.file_id => r = q
       /\ ( /\ Len(handled') = Len(handled) + 1
            /\ Len(handled) > 0
            /\ handled[Len(handled)].stored
            /\ handled'[Len(handled')].stored
            /\ handled'[Len(handled')].tf_data = handled[Len(handled)].tf_data ) =>
            UNCHANGED <<TfMetadata, client_runs>>]_vars

\* a message was stored and then stored again
C31_Witness ==
  /\ Len(StoreCalls) = 2
  /\ StoreCalls[1].stored /\ StoreCalls[2].stored
  /\ StoreCalls[1].tf_data = StoreCalls[2].tf_data
  /\ Cardinality(TfMetadata) = 1

\* C32 (SpecCall): after any sequence of store_tf_metadata calls every Run's
\* total_tfs equals the number of stored rows with that Run's run_number.
C32_CounterMatchesRows ==
  \A run \in client_runs :
    run.total_tfs = Cardinality({r \in TfMetadata : r.run_number = run.run_number})

\* C33 (SpecCall): a store_tf_metadata call in which a statement failed (or
\* that was given a message the table cannot hold) leaves the rows, the runs
\* and their counters as they were, and returns without an exception.
C33_StoreIsAllOrNothing ==
  [][( /\ args.fn = "store_tf_metadata"
       /\ Len(handled') = Len(handled) + 1 ) =>
       /\ ~handled'[Len(handled')].raised
       /\ ~handled'[Len(handled')].stored => UNCHANGED <<TfMetadata, client_runs>>]_vars

\* the second call failed when saving the counter of a run it had created
C33_Witness ==
  /\ Len(StoreCalls) = 2
  /\ StoreCalls[1].stored
  /\ StoreCalls[2].fault = "save" /\ ~StoreCalls[2].stored
  /\ Get(StoreCalls[2].tf_data, "run_number") = <<3>>
  /\ \A run \in client_runs : run.run_number # 3

\* the run number record_file is to find in the name of the file of a url
RunNumberOfUrl(url) ==
  LET p == CHOOSE q \in Paths : \E k \in Kinds : construct_file_url(k, q, BaseUrl) = url
  IN extract_run_number(p, DefaultRunNumber)

\* C34 (SpecCycle): every STF row names a Run that is in the store and whose
\* run_number is extract_run_number of the file's name (the default when no
\* pattern matches), and that Run was in the store before the row was
\* inserted.
C34_FileHasItsRun ==
  [][/\ \A f \in stf_files' \ stf_files :
          \E r \in runs : r.run_id = f.run /\ r.run_number = RunNumberOfUrl(f.file_url)
     /\ \A f \in stf_files :
          \E r \in runs' : r.run_id = f.run /\ r.run_number = RunNumberOfUrl(f.file_url)]_vars

\* a Run with another number was in the store first, and both files are
\* registered under the Run of their own number
C34_Witness ==
  /\ Cardinality(stf_files) = 2
  /\ Cardinality(runs) = 2
  /\ \A f \in stf_files : f.run = 2

\* C35 (SpecCall): the list a scan returns holds every path once, also when
\* a watch directory is configured more than once.
C35_ScanResultHasNoDuplicates ==
  (args.fn = "find_recent_files" /\ result # None) =>
    \A m, n \in 1..Len(result.value) :
      result.value[m] = result.value[n] => m = n

\* C36 (SpecConstruct): once stop() was called on the FileMonitorAgent, the
\* loop of start() begins no further cycle, whether stop() came before
\* start() set the running flag or after.
C36_NoCycleAfterStop ==
  [][stop_called => ~(pc[OrmAgent] = "fm_loop" /\ pc'[OrmAgent] = "fm_scan")]_vars

\* C37 (SpecConstruct): whenever the listener client's start_monitoring has
\* returned, after a connection failure, a failure while subscribing, an
\* interrupt or a stop, its running flag is False and its connection is not
\* left connected.
C37_ReturnedClientIsDisconnected ==
  client.pc = "returned" => ~client.running /\ ~client.connected

\* the SQLAlchemy insert_stf_file has returned to, or raised into, its caller
SessionUseEnded == db.mgr = "sqlalchemy" /\ db.pc = "done"

\* C38 (SpecDb): every use of DatabaseManager.get_session ends in exactly one
\* of two ways: the body completed and the session was committed, or the body
\* or the commit raised, the session was rolled back and the exception
\* reached the caller; either way the session is closed, and a failed
\* insert_stf_file leaves no record behind.
C38_SessionCommittedOrRolledBack ==
  SessionUseEnded =>
    /\ db.closed
    /\ db.pending = {}
    /\ \/ /\ db.session = "committed"
          /\ db.raised = "none"
          /\ \E f \in stf_files \ db.stored :
               /\ f.file_url = db.file_url
               /\ stf_files = db.stored \cup {f}
       \/ /\ db.session = "rolled_back"
          /\ db.raised # "none"
          /\ stf_files = db.stored

\* an insert of a new url for a stored run fails in the flush or in the
\* commit: rolled back, closed, nothing stored
C38_Witness ==
  /\ SessionUseEnded
  /\ db.raised = "Exception"
  /\ ~db.conflict
  /\ RunIdExists(runs, db.run_id)
  /\ ~FileUrlTaken(stf_files, db.file_url)
  /\ db.session = "rolled_back"
  /\ db.closed
  /\ stf_files = db.stored

\* a call of simulate_tf_subsamples has returned
SimulateCalled == args.fn = "simulate_tf_subsamples" /\ result # None

====
